---- MODULE Spec2Model ----
(***************************************************************************)
(* State-machine model of stimulus_onboarding.script_runner.ScriptedScene, *)
(* the declarative script interpreter, together with the two widgets it    *)
(* drives: TerminalWidget (the command execution gateway) and ActionMenu.  *)
(*                                                                         *)
(* Strings that the code inspects character by character (step content)   *)
(* are sequences of one-character strings; strings the code only compares *)
(* or passes on (keys, commands) are TLA+ strings.                        *)
(***************************************************************************)
EXTENDS Integers, Sequences, FiniteSets, TLC

\* ------------------------------------------------------------------ bounds

\* Longest script drawn in Init.
MaxScriptLen == 2

\* Most commands the user has submitted directly in the terminal's Input
\* field and that are in flight at the same time.
MaxInputWorkers == 1

\* Longest script without Terminal steps drawn in InitPresentation.
MaxPresentationLen == 2

\* Most pieces a string handed to the display post-processing is made of.
MaxPieces == 3

\* Most ActionSelected messages posted by a menu and not yet handled.
MaxPendingChoices == 2

\* ------------------------------------------------------- program constants

\* len(GRADIENT_COLORS)
PaletteLen == 10

\* TerminalWidget timeout for a command containing "pip install".
PipTimeout == 120

\* TerminalWidget timeout for any other command.
DefaultTimeout == 30

\* Type.speed, the default seconds per character of a Type step, in
\* milliseconds.
TYPE_SPEED == 50

\* TYPING_SPEED, the seconds per character of the hand-written scenes, in
\* milliseconds.
TYPING_SPEED == 40

\* YAML_TYPING_SPEED, in milliseconds.
YAML_TYPING_SPEED == 5

\* ------------------------------------------------------------- step model

NL == "\n"

Display(c, clr) ==
    [kind |-> "Display", content |-> c, clear |-> clr, command |-> "", key |-> "",
     speed |-> 0]

DisplayYaml(c) ==
    [kind |-> "DisplayYaml", content |-> c, clear |-> FALSE, command |-> "", key |-> "",
     speed |-> 0]

DisplayPython(c) ==
    [kind |-> "DisplayPython", content |-> c, clear |-> FALSE, command |-> "", key |-> "",
     speed |-> 0]

Type(c) ==
    [kind |-> "Type", content |-> c, clear |-> FALSE, command |-> "", key |-> "",
     speed |-> TYPE_SPEED]

Gradient(c) ==
    [kind |-> "Gradient", content |-> c, clear |-> FALSE, command |-> "", key |-> "",
     speed |-> 0]

Terminal(cmd) ==
    [kind |-> "Terminal", content |-> <<>>, clear |-> FALSE, command |-> cmd, key |-> "",
     speed |-> 0]

Wait ==
    [kind |-> "Wait", content |-> <<>>, clear |-> FALSE, command |-> "", key |-> "",
     speed |-> 0]

WaitForInput(k) ==
    [kind |-> "WaitForInput", content |-> <<>>, clear |-> FALSE, command |-> "", key |-> k,
     speed |-> 0]

\* The commands of the Terminal steps, and what the user may type in the Input.
Commands == {"ls", "pip install stimulus"}

\* `"pip install" in step.command`
ContainsPipInstall(cmd) == cmd = "pip install stimulus"

\* The keys the user may press.
Keys == {"down", "enter"}

\* The steps scripts are built from.
StepAlphabet ==
    { Display(<<"d", "o", "n", "e">>, FALSE),
      Type(<<"A", NL>>),
      Terminal("ls"),
      Terminal("pip install stimulus"),
      Wait,
      WaitForInput("down"),
      WaitForInput("enter") }

SeqsUpTo(S, n) == UNION { [1..m -> S] : m \in 1..n }

Scripts == SeqsUpTo(StepAlphabet, MaxScriptLen)

\* The steps of scripts that show content and wait, but run no command: every
\* kind of display step, and Type steps whose content is empty, has no line
\* break, ends in a line break, and has two line breaks in a row.
PresentationAlphabet ==
    { Display(<<"d">>, FALSE),
      Display(<<"c">>, TRUE),
      DisplayYaml(<<"y">>),
      DisplayPython(<<"p">>),
      Gradient(<<"g">>),
      Type(<<>>),
      Type(<<"A", "B">>),
      Type(<<"A", NL>>),
      Type(<<"A", NL, NL, "B">>),
      Wait,
      WaitForInput("down"),
      WaitForInput("enter") }

PresentationScripts == SeqsUpTo(PresentationAlphabet, MaxPresentationLen)

\* ------------------------------------------------------------------ state

VARIABLES
    lifecycle,                      \* "new" after __init__, "mounted" after on_mount,
                                    \* "unmounted" after on_unmount
    script,                         \* _script (fixed by build_script)
    current_step_index,             \* _current_step_index
    segment_store,                  \* every segment object created, by identity
    segments,                       \* _segments: the buffer, a list of identities
    waiting_for_input,              \* _waiting_for_input
    expected_key,                   \* _expected_key
    waiting_for_command,            \* _waiting_for_command
    waiting_for_command_completion, \* _waiting_for_command_completion
    terminal,                       \* _terminal (TerminalWidget or None)
    menus,                          \* mounted ActionMenu widgets (their _selected_index)
    choices,                        \* ActionSelected messages posted, not yet handled,
                                    \* each with its sender
    timers,                         \* armed timers of the scene
    navigation_hint,                \* what _navigation_hint shows
    workers,                        \* run_command coroutines in flight
    dispatched,                     \* history: steps dispatched, in order
    run_calls,                      \* history: the commands the scene passed to
                                    \* run_command, each with its Terminal step
    last_note,                      \* history: what the program state does not show
                                    \* of the last event: that a menu choice was
                                    \* ignored, how the scene's command ended, or
                                    \* that _animate_frame rendered ("" otherwise)
    text,                           \* a string handed to the display post-processing
                                    \* (TextSpec; empty in the scene's specifications)
    widget                          \* a hand-written scene of the widgets package
                                    \* (NoWidget in the specifications of ScriptedScene)

\* The interpreter's own fields and widgets.
progVars ==
    << lifecycle, script, current_step_index, segment_store, segments,
       waiting_for_input, expected_key, waiting_for_command,
       waiting_for_command_completion, terminal, menus, choices, timers,
       navigation_hint, workers >>

\* The scene and its history.
sceneVars ==
    << lifecycle, script, current_step_index, segment_store, segments,
       waiting_for_input, expected_key, waiting_for_command,
       waiting_for_command_completion, terminal, menus, choices, timers,
       navigation_hint, workers, dispatched, run_calls, last_note >>

vars ==
    << lifecycle, script, current_step_index, segment_store, segments,
       waiting_for_input, expected_key, waiting_for_command,
       waiting_for_command_completion, terminal, menus, choices, timers,
       navigation_hint, workers, dispatched, run_calls, last_note, text, widget >>

\* No hand-written scene is constructed.
NoWidget == [name |-> ""]

\* ----------------------------------------------------------------- segments

TextSegment(c, vis, grad) ==
    [type |-> "text", content |-> c, visible_length |-> vis,
     is_gradient |-> grad, gradient_offset |-> 0, language |-> ""]

CodeSegment(c, lang) ==
    [type |-> "code", content |-> c, visible_length |-> Len(c),
     is_gradient |-> FALSE, gradient_offset |-> 0, language |-> lang]

is_fully_visible(seg) == seg.visible_length >= Len(seg.content)

\* `self._segments.append(seg)`: the new object gets the next identity.
AppendSegment(s, seg) ==
    [s EXCEPT !.segment_store = Append(@, seg),
              !.segments = Append(@, Len(s.segment_store) + 1)]

\* `self._segments[-1]`
LastSegment(s) == s.segment_store[s.segments[Len(s.segments)]]

EndsWithNewline(c) == Len(c) > 0 /\ c[Len(c)] = NL

\* ------------------------------------------------------------------- timers

\* A timer of the scene: what it calls back (kind), the segment its callback
\* closes over (seg, 0 if none), the field of the scene that holds its
\* handle ("" if no field does), and the typing speed its callback closes
\* over, which is also the period of a reveal interval (0 for the timers that
\* reveal nothing).
Timer(kind, seg, fld, speed) ==
    [kind |-> kind, seg |-> seg, field |-> fld, speed |-> speed]

\* stop_timer_safely(self.<fld>): stops the timer the field refers to, if any.
stop_timer_safely(ts, fld) == SelectSeq(ts, LAMBDA t : t.field # fld)

\* self.<fld> = None (or = another handle): the timer it referred to stays armed.
Forget(ts, fld) ==
    [i \in 1..Len(ts) |-> IF ts[i].field = fld THEN [ts[i] EXCEPT !.field = ""] ELSE ts[i]]

\* self.<fld> = self.set_interval(...)
set_interval(ts, kind, seg, fld, speed) ==
    Append(Forget(ts, fld), Timer(kind, seg, fld, speed))

\* self.set_timer(...): a one-shot timer, its handle kept nowhere.
set_timer(ts, kind, seg, speed) == Append(ts, Timer(kind, seg, "", speed))

RemoveAt(q, i) == [j \in 1..(Len(q) - 1) |-> IF j < i THEN q[j] ELSE q[j + 1]]

\* ----------------------------------------------------------------- widgets

\* _terminal: the Input's text and disabled flag, the timeout, and the number
\* of "Skipping step..." notices the scene has written to the log_widget.
NoTerminal ==
    [exists |-> FALSE, value |-> "", disabled |-> FALSE, timeout |-> 0, skip_notices |-> 0]

\* TerminalWidget(prefilled_command=cmd, auto_focus=False, timeout=t), mounted.
TerminalWidget(cmd, t) ==
    [exists |-> TRUE, value |-> cmd, disabled |-> FALSE, timeout |-> t, skip_notices |-> 0]

\* TerminalWidget.disable_input
disable_input(term) == [term EXCEPT !.disabled = TRUE]

\* A run_command coroutine in flight: the command, who started it ("scene":
\* _run_command_and_continue, "input": on_input_submitted) and where it waits.
\*   "spawn"   awaiting create_subprocess_shell
\*   "read"    awaiting wait_for(gather(read_stream, read_stream), timeout)
\*   "wait"    awaiting process.wait()
Worker(cmd, via) == [cmd |-> cmd, via |-> via, phase |-> "spawn"]

\* run_worker(...run_command(cmd)): the coroutine starts, echoes the command
\* and requests the subprocess.
StartRunCommand(s, cmd, via) == [s EXCEPT !.workers = Append(@, Worker(cmd, via))]

\* ----------------------------------------------------------- the interpreter

\* The fields the handlers read and write, as one record.
State ==
    [current_step_index |-> current_step_index,
     segment_store |-> segment_store,
     segments |-> segments,
     waiting_for_input |-> waiting_for_input,
     expected_key |-> expected_key,
     waiting_for_command |-> waiting_for_command,
     waiting_for_command_completion |-> waiting_for_command_completion,
     terminal |-> terminal,
     menus |-> menus,
     timers |-> timers,
     navigation_hint |-> navigation_hint,
     workers |-> workers,
     dispatched |-> dispatched,
     run_calls |-> run_calls]

Commit(s) ==
    /\ current_step_index' = s.current_step_index
    /\ segment_store' = s.segment_store
    /\ segments' = s.segments
    /\ waiting_for_input' = s.waiting_for_input
    /\ expected_key' = s.expected_key
    /\ waiting_for_command' = s.waiting_for_command
    /\ waiting_for_command_completion' = s.waiting_for_command_completion
    /\ terminal' = s.terminal
    /\ menus' = s.menus
    /\ timers' = s.timers
    /\ navigation_hint' = s.navigation_hint
    /\ workers' = s.workers
    /\ dispatched' = s.dispatched
    /\ run_calls' = s.run_calls

\* Faulty variant of handle_display: the buffer is emptied whatever step.clear is.
handle_display_always_clears(s, step) ==
    AppendSegment([s EXCEPT !.segments = <<>>],
                  TextSegment(step.content, Len(step.content), FALSE))

\* Faulty variant of handle_display: no spacing segment is added.
handle_display_no_spacing(s, step) ==
    AppendSegment(IF step.clear THEN [s EXCEPT !.segments = <<>>] ELSE s,
                  TextSegment(step.content, Len(step.content), FALSE))

handle_display(s, step) ==
    LET spaced ==
            IF step.clear
            THEN [s EXCEPT !.segments = <<>>]
            ELSE IF Len(s.segments) > 0 /\ LastSegment(s).type = "text"
                 THEN AppendSegment(s, TextSegment(<<NL, NL>>, 2, FALSE))
                 ELSE s
    IN  AppendSegment(spaced, TextSegment(step.content, Len(step.content), FALSE))

handle_display_yaml(s, step) == AppendSegment(s, CodeSegment(step.content, "yaml"))

handle_display_python(s, step) == AppendSegment(s, CodeSegment(step.content, "python"))

handle_gradient(s, step) ==
    AppendSegment(s, TextSegment(step.content, Len(step.content), TRUE))

\* Faulty variant of handle_type: the reveal starts before the first character.
handle_type_before_start(s, step) ==
    LET s1 == AppendSegment(s, TextSegment(step.content, 0 - 1, FALSE))
    IN  [s1 EXCEPT !.timers =
            set_interval(@, "typing", Len(s1.segment_store), "_typing_timer", step.speed)]

handle_type(s, step) ==
    LET s1 == AppendSegment(s, TextSegment(step.content, 0, FALSE))
    IN  [s1 EXCEPT !.timers =
            set_interval(@, "typing", Len(s1.segment_store), "_typing_timer", step.speed)]

handle_terminal(s, step) ==
    LET spaced ==
            IF Len(s.segments) > 0
               /\ LastSegment(s).type = "text"
               /\ ~EndsWithNewline(LastSegment(s).content)
            THEN AppendSegment(s, TextSegment(<<NL, NL>>, 2, FALSE))
            ELSE s
        term ==
            IF ~s.terminal.exists
            THEN TerminalWidget(step.command,
                    IF ContainsPipInstall(step.command) THEN PipTimeout ELSE DefaultTimeout)
            ELSE [s.terminal EXCEPT !.value = step.command, !.disabled = FALSE]
    IN  [spaced EXCEPT !.terminal = term,
                       !.menus = Append(@, 0),
                       !.waiting_for_command = TRUE,
                       !.navigation_hint = "Select an option to continue"]

\* Faulty variant of handle_wait: no timer is armed.
handle_wait_unarmed(s, step) == s

handle_wait(s, step) == [s EXCEPT !.timers = set_timer(@, "wait", 0, 0)]

start_hint_animation(s) ==
    [s EXCEPT !.timers = set_interval(@, "hint", 0, "_nav_hint_animation_timer", 0)]

stop_hint_animation(s) ==
    [s EXCEPT !.timers =
        Forget(stop_timer_safely(@, "_nav_hint_animation_timer"),
               "_nav_hint_animation_timer")]

handle_wait_for_input(s, step) ==
    LET s1 == [s EXCEPT !.waiting_for_input = TRUE, !.expected_key = step.key]
    IN  IF step.key = "down"
        THEN start_hint_animation(s1)
        ELSE [s1 EXCEPT !.navigation_hint = "prompt"]

\* Faulty variant of execute_next_step: at the end of the script the cursor
\* still moves on.
RECURSIVE execute_next_step_past_end(_)
execute_next_step_past_end(s) ==
    IF s.waiting_for_command_completion THEN s
    ELSE IF s.current_step_index >= Len(script)
         THEN [s EXCEPT !.current_step_index = @ + 1]
    ELSE
        LET step == script[s.current_step_index + 1]
            s1 == [s EXCEPT !.current_step_index = @ + 1,
                            !.dispatched = Append(@, s.current_step_index + 1)]
        IN  CASE step.kind = "Display" -> execute_next_step_past_end(handle_display(s1, step))
              [] step.kind = "DisplayYaml" -> execute_next_step_past_end(handle_display_yaml(s1, step))
              [] step.kind = "DisplayPython" -> execute_next_step_past_end(handle_display_python(s1, step))
              [] step.kind = "Type" -> handle_type(s1, step)
              [] step.kind = "Gradient" -> execute_next_step_past_end(handle_gradient(s1, step))
              [] step.kind = "Terminal" -> handle_terminal(s1, step)
              [] step.kind = "Wait" -> handle_wait(s1, step)
              [] step.kind = "WaitForInput" -> handle_wait_for_input(s1, step)

\* Faulty variant of execute_next_step: a Wait step leaves the cursor where it
\* was, so the step is dispatched again when its timer fires.
RECURSIVE execute_next_step_wait_stays(_)
execute_next_step_wait_stays(s) ==
    IF s.waiting_for_command_completion THEN s
    ELSE IF s.current_step_index >= Len(script) THEN s
    ELSE
        LET step == script[s.current_step_index + 1]
            s1 == [s EXCEPT !.current_step_index = @ + 1,
                            !.dispatched = Append(@, s.current_step_index + 1)]
        IN  CASE step.kind = "Display" -> execute_next_step_wait_stays(handle_display(s1, step))
              [] step.kind = "DisplayYaml" -> execute_next_step_wait_stays(handle_display_yaml(s1, step))
              [] step.kind = "DisplayPython" -> execute_next_step_wait_stays(handle_display_python(s1, step))
              [] step.kind = "Type" -> handle_type(s1, step)
              [] step.kind = "Gradient" -> execute_next_step_wait_stays(handle_gradient(s1, step))
              [] step.kind = "Terminal" -> handle_terminal(s1, step)
              [] step.kind = "Wait" ->
                    handle_wait([s1 EXCEPT !.current_step_index = s.current_step_index], step)
              [] step.kind = "WaitForInput" -> handle_wait_for_input(s1, step)

RECURSIVE execute_next_step(_)
execute_next_step(s) ==
    IF s.waiting_for_command_completion THEN s
    ELSE IF s.current_step_index >= Len(script) THEN s
    ELSE
        LET step == script[s.current_step_index + 1]
            s1 == [s EXCEPT !.current_step_index = @ + 1,
                            !.dispatched = Append(@, s.current_step_index + 1)]
        IN  CASE step.kind = "Display" -> execute_next_step(handle_display(s1, step))
              [] step.kind = "DisplayYaml" -> execute_next_step(handle_display_yaml(s1, step))
              [] step.kind = "DisplayPython" -> execute_next_step(handle_display_python(s1, step))
              [] step.kind = "Type" -> handle_type(s1, step)
              [] step.kind = "Gradient" -> execute_next_step(handle_gradient(s1, step))
              [] step.kind = "Terminal" -> handle_terminal(s1, step)
              [] step.kind = "Wait" -> handle_wait(s1, step)
              [] step.kind = "WaitForInput" -> handle_wait_for_input(s1, step)

\* --------------------------------------------------------------------- Init

\* The scene after __init__, whatever build_script will return.
Constructed ==
    /\ lifecycle = "new"
    /\ current_step_index = 0
    /\ segment_store = <<>>
    /\ segments = <<>>
    /\ waiting_for_input = FALSE
    /\ expected_key = ""
    /\ waiting_for_command = FALSE
    /\ waiting_for_command_completion = FALSE
    /\ terminal = NoTerminal
    /\ menus = <<>>
    /\ choices = <<>>
    /\ timers = <<>>
    /\ navigation_hint = ""
    /\ workers = <<>>
    /\ dispatched = <<>>
    /\ run_calls = <<>>
    /\ last_note = ""

Init ==
    /\ script \in Scripts
    /\ Constructed
    /\ text = <<>>
    /\ widget = NoWidget

\* A scene whose script has no Terminal step.
InitPresentation ==
    /\ script \in PresentationScripts
    /\ Constructed
    /\ text = <<>>
    /\ widget = NoWidget

\* ------------------------------------------------------------------ actions

\* on_mount: build the script, start the animation clock, run the first step.
OnMount ==
    /\ lifecycle = "new"
    /\ lifecycle' = "mounted"
    /\ Commit(execute_next_step(
            [State EXCEPT !.timers = set_interval(@, "animation", 0, "_animation_timer", 0)]))
    /\ last_note' = ""
    /\ UNCHANGED << script, choices, text, widget >>

\* on_unmount: the three timers whose handles the scene keeps are stopped.
on_unmount(s) ==
    [s EXCEPT !.timers =
        stop_timer_safely(
            stop_timer_safely(
                stop_timer_safely(@, "_nav_hint_animation_timer"),
                "_typing_timer"),
            "_animation_timer")]

\* The scene is removed (the app goes to the next scene, or exits) together
\* with the menu and the terminal mounted in it: the menu is gone, its
\* messages are dropped, and no more key, menu or Input event is delivered.
OnUnmount ==
    /\ lifecycle = "mounted"
    /\ lifecycle' = "unmounted"
    /\ Commit([on_unmount(State) EXCEPT !.menus = <<>>])
    /\ choices' = <<>>
    /\ last_note' = ""
    /\ UNCHANGED << script, text, widget >>

\* Faulty variant of type_tick: the interval is left running when the reveal is complete.
type_tick_keeps_timer(s, i) ==
    LET id == s.timers[i].seg
        seg == s.segment_store[id]
        stopped == Forget(stop_timer_safely(s.timers, "_typing_timer"), "_typing_timer")
    IN  IF is_fully_visible(seg)
        THEN execute_next_step(s)
        ELSE LET vis == seg.visible_length + 1
                 current_idx == vis - 1
                 s1 == [s EXCEPT !.segment_store[id].visible_length = vis]
             IN  IF /\ current_idx > 0
                    /\ seg.content[current_idx + 1] = NL
                    /\ (current_idx < 1 \/ seg.content[current_idx] # NL)
                 THEN [s1 EXCEPT !.timers = set_timer(stopped, "resume", id, s.timers[i].speed)]
                 ELSE s1

\* _type_tick(segment, speed), called by the armed interval timers[i].
\* Faulty variant of type_tick: the interval goes on ticking during a narrative
\* pause.
type_tick_pause_keeps_interval(s, i) ==
    LET id == s.timers[i].seg
        seg == s.segment_store[id]
        stopped == Forget(stop_timer_safely(s.timers, "_typing_timer"), "_typing_timer")
    IN  IF is_fully_visible(seg)
        THEN execute_next_step([s EXCEPT !.timers = stopped])
        ELSE LET vis == seg.visible_length + 1
                 current_idx == vis - 1
                 s1 == [s EXCEPT !.segment_store[id].visible_length = vis]
             IN  IF /\ current_idx > 0
                    /\ seg.content[current_idx + 1] = NL
                    /\ (current_idx < 1 \/ seg.content[current_idx] # NL)
                 THEN [s1 EXCEPT !.timers = set_timer(@, "resume", id, s.timers[i].speed)]
                 ELSE s1

type_tick(s, i) ==
    LET id == s.timers[i].seg
        seg == s.segment_store[id]
        stopped == Forget(stop_timer_safely(s.timers, "_typing_timer"), "_typing_timer")
    IN  IF is_fully_visible(seg)
        THEN execute_next_step([s EXCEPT !.timers = stopped])
        ELSE LET vis == seg.visible_length + 1
                 current_idx == vis - 1
                 s1 == [s EXCEPT !.segment_store[id].visible_length = vis]
             IN  IF /\ current_idx > 0
                    /\ seg.content[current_idx + 1] = NL
                    /\ (current_idx < 1 \/ seg.content[current_idx] # NL)
                 THEN [s1 EXCEPT !.timers = set_timer(stopped, "resume", id, s.timers[i].speed)]
                 ELSE s1

TypeTick(i) ==
    /\ lifecycle \in {"mounted", "unmounted"}
    /\ i \in 1..Len(timers)
    /\ timers[i].kind = "typing"
    /\ Commit(type_tick(State, i))
    /\ last_note' = ""
    /\ UNCHANGED << lifecycle, script, choices, text, widget >>

\* Faulty variant of resume_typing: the pause ends and no interval is armed.
resume_typing_lost(s, i) == [s EXCEPT !.timers = RemoveAt(@, i)]

\* _resume_typing(segment, speed), called by the one-shot timers[i].
resume_typing(s, i) ==
    [s EXCEPT !.timers =
        set_interval(RemoveAt(@, i), "typing", s.timers[i].seg, "_typing_timer",
                     s.timers[i].speed)]

ResumeTyping(i) ==
    /\ lifecycle \in {"mounted", "unmounted"}
    /\ i \in 1..Len(timers)
    /\ timers[i].kind = "resume"
    /\ Commit(resume_typing(State, i))
    /\ last_note' = ""
    /\ UNCHANGED << lifecycle, script, choices, text, widget >>

\* Faulty variant of WaitTimerFires: the timer stays armed after it has fired.
WaitTimerFiresRepeating(i) ==
    /\ lifecycle \in {"mounted", "unmounted"}
    /\ i \in 1..Len(timers)
    /\ timers[i].kind = "wait"
    /\ Commit(execute_next_step(State))
    /\ last_note' = ""
    /\ UNCHANGED << lifecycle, script, choices, text, widget >>

\* The one-shot timer of a Wait step fires: it calls _execute_next_step.
WaitTimerFires(i) ==
    /\ lifecycle \in {"mounted", "unmounted"}
    /\ i \in 1..Len(timers)
    /\ timers[i].kind = "wait"
    /\ Commit(execute_next_step([State EXCEPT !.timers = RemoveAt(@, i)]))
    /\ last_note' = ""
    /\ UNCHANGED << lifecycle, script, choices, text, widget >>

\* Faulty variant of cycle_gradient_offset: the cycle is one colour short.
cycle_gradient_offset_short(current_offset) == (current_offset + 1) % (PaletteLen - 1)

cycle_gradient_offset(current_offset) == (current_offset + 1) % PaletteLen

\* Faulty variant of animate_frame: every gradient segment ever created is
\* animated, in the buffer or not.
animate_frame_all_stored(s) ==
    [s EXCEPT !.segment_store =
        [id \in 1..Len(@) |->
            IF @[id].type = "text" /\ @[id].is_gradient
            THEN [@[id] EXCEPT !.gradient_offset = cycle_gradient_offset(@)]
            ELSE @[id]]]

\* The needs_render flag of _animate_frame after its loop over the buffer ids.
RECURSIVE needs_render(_, _)
needs_render(s, ids) ==
    IF ids = <<>> THEN FALSE
    ELSE IF s.segment_store[Head(ids)].type = "text" /\ s.segment_store[Head(ids)].is_gradient
         THEN TRUE
         ELSE needs_render(s, Tail(ids))

\* _animate_frame
animate_frame(s) ==
    [s EXCEPT !.segment_store =
        [id \in 1..Len(@) |->
            IF id \in {s.segments[j] : j \in 1..Len(s.segments)}
               /\ @[id].type = "text" /\ @[id].is_gradient
            THEN [@[id] EXCEPT !.gradient_offset = cycle_gradient_offset(@)]
            ELSE @[id]]]

AnimateFrame ==
    /\ lifecycle \in {"mounted", "unmounted"}
    /\ \E i \in 1..Len(timers) : timers[i].kind = "animation"
    /\ Commit(animate_frame(State))
    /\ last_note' = IF needs_render(State, segments) THEN "frame_rendered" ELSE ""
    /\ UNCHANGED << lifecycle, script, choices, text, widget >>

\* _animate_down_hint (the hint's own colour phase is not modelled)
animate_down_hint(s) == [s EXCEPT !.navigation_hint = "press down to continue"]

AnimateDownHint ==
    /\ lifecycle \in {"mounted", "unmounted"}
    /\ \E i \in 1..Len(timers) : timers[i].kind = "hint"
    /\ Commit(animate_down_hint(State))
    /\ last_note' = ""
    /\ UNCHANGED << lifecycle, script, choices, text, widget >>

\* Faulty variant of on_key: any key resolves the wait.
on_key_any_key(s, k) ==
    IF ~s.waiting_for_input THEN s
    ELSE execute_next_step(
            [stop_hint_animation([s EXCEPT !.waiting_for_input = FALSE])
                EXCEPT !.navigation_hint = ""])

\* Faulty variant of on_key: the key is compared without checking that one is awaited.
on_key_unguarded(s, k) ==
    IF k = s.expected_key
    THEN execute_next_step(
            [stop_hint_animation([s EXCEPT !.waiting_for_input = FALSE])
                EXCEPT !.navigation_hint = ""])
    ELSE s

\* Faulty variant of on_key: the hint animation is left running.
on_key_keeps_hint(s, k) ==
    IF ~s.waiting_for_input THEN s
    ELSE IF k = s.expected_key
         THEN execute_next_step(
                [s EXCEPT !.waiting_for_input = FALSE, !.navigation_hint = ""])
         ELSE s

\* ScriptedScene.on_key
on_key(s, k) ==
    IF ~s.waiting_for_input THEN s
    ELSE IF k = s.expected_key
         THEN execute_next_step(
                [stop_hint_animation([s EXCEPT !.waiting_for_input = FALSE])
                    EXCEPT !.navigation_hint = ""])
         ELSE s

OnKey(k) ==
    /\ lifecycle = "mounted"
    /\ Commit(on_key(State, k))
    /\ last_note' = ""
    /\ UNCHANGED << lifecycle, script, choices, text, widget >>

\* ActionMenu: _options, and on_key of the mounted menu menus[m].
MenuOptions == <<"Run", "Skip">>

MenuKeys == {"up", "down", "enter", "x"}

\* Faulty variant of menu_on_key: the selection stops at both ends.
menu_on_key_no_wrap(sel, k) ==
    CASE k = "up" -> IF sel = 0 THEN 0 ELSE sel - 1
      [] k = "down" -> IF sel = Len(MenuOptions) - 1 THEN sel ELSE sel + 1
      [] OTHER -> sel

menu_on_key(sel, k) ==
    CASE k = "up" -> (sel - 1) % Len(MenuOptions)
      [] k = "down" -> (sel + 1) % Len(MenuOptions)
      [] OTHER -> sel

\* The message a menu posts. A message knows its sender: the menu, named here
\* by the number of the Terminal step that mounted it, which is the step the
\* cursor has just passed while the menu is mounted.
ActionSelected(action, sender) == [action |-> action, sender |-> sender]

MenuKey(m, k) ==
    /\ lifecycle = "mounted"
    /\ m \in 1..Len(menus)
    /\ k = "enter" => Len(choices) < MaxPendingChoices
    /\ menus' = [menus EXCEPT ![m] = menu_on_key(@, k)]
    /\ choices' = IF k = "enter"
                  THEN Append(choices,
                              ActionSelected(MenuOptions[menus[m] + 1], current_step_index))
                  ELSE choices
    /\ last_note' = ""
    /\ UNCHANGED << lifecycle, script, current_step_index, segment_store, segments,
                    waiting_for_input, expected_key, waiting_for_command,
                    waiting_for_command_completion, terminal, timers, navigation_hint,
                    workers, dispatched, run_calls, text, widget >>

\* Faulty variant of last_step: the first step of the script is looked up.
last_step_first(s) == script[1]

\* `self._script[self._current_step_index - 1]` (a Python index of -1 is the
\* last element).
last_step(s) ==
    script[IF s.current_step_index >= 1 THEN s.current_step_index ELSE Len(script)]

\* Faulty variant of select_run: the completion flag is not set.
select_run_no_flag(s) ==
    IF s.terminal.exists /\ last_step(s).kind = "Terminal"
    THEN StartRunCommand(
            [s EXCEPT !.run_calls = Append(@, [cmd |-> last_step(s).command,
                                               step |-> s.current_step_index])],
            last_step(s).command, "scene")
    ELSE s

\* case "Run" of on_action_menu_action_selected
select_run(s) ==
    IF s.terminal.exists /\ last_step(s).kind = "Terminal"
    THEN StartRunCommand(
            [s EXCEPT !.waiting_for_command_completion = TRUE,
                      !.run_calls = Append(@, [cmd |-> last_step(s).command,
                                               step |-> s.current_step_index])],
            last_step(s).command, "scene")
    ELSE s

\* Faulty variant of select_skip: the command is run before the script goes on.
select_skip_runs(s) ==
    execute_next_step(
        IF s.terminal.exists
        THEN StartRunCommand(
                [s EXCEPT !.terminal.skip_notices = @ + 1,
                          !.run_calls = Append(@, [cmd |-> last_step(s).command,
                                                   step |-> s.current_step_index])],
                last_step(s).command, "scene")
        ELSE s)

\* case "Skip" of on_action_menu_action_selected
select_skip(s) ==
    execute_next_step(
        IF s.terminal.exists THEN [s EXCEPT !.terminal.skip_notices = @ + 1] ELSE s)

\* Faulty variant of on_action_menu_action_selected: the choice is acted on
\* whether or not a command choice is awaited.
on_action_menu_action_selected_unguarded(s, action) ==
    LET s1 == [s EXCEPT !.menus = IF Len(@) > 0 THEN Tail(@) ELSE @,
                        !.terminal = IF @.exists THEN disable_input(@) ELSE @,
                        !.waiting_for_command = FALSE]
    IN  CASE action = "Run" -> select_run(s1)
          [] action = "Skip" -> select_skip(s1)
          [] OTHER -> s1

\* ScriptedScene.on_action_menu_action_selected
on_action_menu_action_selected(s, action) ==
    IF ~s.waiting_for_command THEN s
    ELSE
        LET s1 == [s EXCEPT !.menus = IF Len(@) > 0 THEN Tail(@) ELSE @,
                            !.terminal = IF @.exists THEN disable_input(@) ELSE @,
                            !.waiting_for_command = FALSE]
        IN  CASE action = "Run" -> select_run(s1)
              [] action = "Skip" -> select_skip(s1)
              [] OTHER -> s1

OnActionSelected ==
    /\ lifecycle = "mounted"
    /\ Len(choices) > 0
    /\ choices' = Tail(choices)
    /\ Commit(on_action_menu_action_selected(State, Head(choices).action))
    /\ last_note' = IF ~waiting_for_command THEN "choice_ignored" ELSE ""
    /\ UNCHANGED << lifecycle, script, text, widget >>

\* TerminalWidget.on_input_submitted: the user presses Enter in the Input,
\* whose text v is the command the step put there, or nothing (text deleted).
on_input_submitted(s, v) ==
    IF v = "" THEN s ELSE StartRunCommand(s, v, "input")

OnInputSubmitted(v) ==
    /\ lifecycle = "mounted"
    /\ terminal.exists
    /\ ~terminal.disabled
    /\ Cardinality({i \in 1..Len(workers) : workers[i].via = "input"}) < MaxInputWorkers
    /\ Commit(on_input_submitted(State, v))
    /\ last_note' = ""
    /\ UNCHANGED << lifecycle, script, choices, text, widget >>

\* --------------------------------------------- TerminalWidget.run_command

\* Faulty variant of run_command_returns: the script goes on whoever started the command.
run_command_returns_any(s, i) ==
    execute_next_step([s EXCEPT !.workers = RemoveAt(@, i),
                                !.waiting_for_command_completion = FALSE])

\* run_command of workers[i] returns; when the scene started it,
\* _run_command_and_continue goes on.
run_command_returns(s, i) ==
    LET s1 == [s EXCEPT !.workers = RemoveAt(@, i)]
    IN  IF s.workers[i].via = "scene"
        THEN execute_next_step([s1 EXCEPT !.waiting_for_command_completion = FALSE])
        ELSE s1

GatewayStep(i, phases, s, outcome) ==
    /\ lifecycle \in {"mounted", "unmounted"}
    /\ i \in 1..Len(workers)
    /\ workers[i].phase \in phases
    /\ Commit(s)
    /\ last_note' = IF workers[i].via = "scene" THEN outcome ELSE ""
    /\ UNCHANGED << lifecycle, script, choices, text, widget >>

\* Faulty variant of SpawnFails: the error is not caught, so the worker dies and
\* _run_command_and_continue never goes on.
SpawnFailsUncaught(i) ==
    GatewayStep(i, {"spawn"}, [State EXCEPT !.workers = RemoveAt(@, i)], "failed_start")

\* create_subprocess_shell raises: `except Exception` logs the error.
SpawnFails(i) ==
    GatewayStep(i, {"spawn"},
        run_command_returns(State, i), "failed_start")

\* create_subprocess_shell returns the process; the two streams are read.
Spawned(i) ==
    GatewayStep(i, {"spawn"}, [State EXCEPT !.workers[i].phase = "read"], "")

\* Both streams reach end of file before the timeout: process.wait() is awaited.
StreamsEnd(i) ==
    GatewayStep(i, {"read"}, [State EXCEPT !.workers[i].phase = "wait"], "")

\* Reading raises (line.decode() on undecodable output): `except Exception`.
ReadRaises(i) ==
    GatewayStep(i, {"read"},
        run_command_returns(State, i), "error")

\* wait_for raises TimeoutError: the process is killed and the timeout logged.
TimeoutFires(i) ==
    GatewayStep(i, {"read"},
        run_command_returns(State, i), "timeout")

\* The process ends (with exit status zero or not): process.wait() returns.
ProcessExits(i, status) ==
    GatewayStep(i, {"wait"}, run_command_returns(State, i), status)

\* --------------------------------------------------------------------- Next

Next ==
    \/ OnMount
    \/ OnUnmount
    \/ \E i \in 1..Len(timers) : TypeTick(i)
    \/ \E i \in 1..Len(timers) : ResumeTyping(i)
    \/ \E i \in 1..Len(timers) : WaitTimerFires(i)
    \/ AnimateFrame
    \/ AnimateDownHint
    \/ \E k \in Keys : OnKey(k)
    \/ \E m \in 1..Len(menus), k \in MenuKeys : MenuKey(m, k)
    \/ OnActionSelected
    \/ \E v \in {terminal.value, ""} : OnInputSubmitted(v)
    \/ \E i \in 1..Len(workers) : SpawnFails(i)
    \/ \E i \in 1..Len(workers) : Spawned(i)
    \/ \E i \in 1..Len(workers) : StreamsEnd(i)
    \/ \E i \in 1..Len(workers) : ReadRaises(i)
    \/ \E i \in 1..Len(workers) : TimeoutFires(i)
    \/ \E i \in 1..Len(workers), status \in {"ok", "nonzero"} : ProcessExits(i, status)

Spec == Init /\ [][Next]_vars

\* A script without Terminal steps mounts no terminal and no menu and starts
\* no command, so the menu, Input and run_command steps of Next are never
\* enabled: what is left of Next is
NextPresentation ==
    \/ OnMount
    \/ OnUnmount
    \/ \E i \in 1..Len(timers) : TypeTick(i)
    \/ \E i \in 1..Len(timers) : ResumeTyping(i)
    \/ \E i \in 1..Len(timers) : WaitTimerFires(i)
    \/ AnimateFrame
    \/ AnimateDownHint
    \/ \E k \in Keys : OnKey(k)

\* The event loop runs every armed timer's callback: an armed reveal interval
\* ticks, a pending narrative pause ends, a pending Wait timer fires. Nothing
\* is assumed of the user (keys) or of the app (mounting, unmounting).
PresentationSpec ==
    /\ InitPresentation
    /\ [][NextPresentation]_vars
    /\ WF_vars(\E i \in 1..Len(timers) : TypeTick(i))
    /\ WF_vars(\E i \in 1..Len(timers) : ResumeTyping(i))
    /\ WF_vars(\E i \in 1..Len(timers) : WaitTimerFires(i))

\* ------------------------------------------------- display post-processing

YAML_BLOCK_START == <<"{", "{", "Y", "A", "M", "L", "_", "S", "T", "A", "R", "T", "}", "}">>

YAML_BLOCK_END == <<"{", "{", "Y", "A", "M", "L", "_", "E", "N", "D", "}", "}">>

\* text.replace(marker, ""): the occurrences of marker found from left to
\* right, without overlap, are removed.
RECURSIVE Replace(_, _)
Replace(s, marker) ==
    IF Len(s) < Len(marker) THEN s
    ELSE IF SubSeq(s, 1, Len(marker)) = marker
         THEN Replace(SubSeq(s, Len(marker) + 1, Len(s)), marker)
         ELSE <<Head(s)>> \o Replace(Tail(s), marker)

strip_yaml_markers(s) == Replace(Replace(s, YAML_BLOCK_START), YAML_BLOCK_END)

\* The position of the last "[" of s, 0 if it has none.
LastBracket(s) ==
    LET at == {i \in 1..Len(s) : s[i] = "["}
    IN  IF at = {} THEN 0 ELSE CHOOSE i \in at : \A j \in at : j <= i

\* fix_incomplete_markup: `"[" in text and "]" not in text.split("[")[-1]`
\* returns `text.rsplit("[", 1)[0]`.
fix_incomplete_markup(s) ==
    LET k == LastBracket(s)
    IN  IF k > 0 /\ \A j \in (k + 1)..Len(s) : s[j] # "]"
        THEN SubSeq(s, 1, k - 1)
        ELSE s

\* What is displayed of a text: TextSegment.render fixes the markup, then
\* _render_all strips the markers.
clean(s) == strip_yaml_markers(fix_incomplete_markup(s))

\* The strings post-processed: up to MaxPieces pieces, each a bracket, a
\* letter, a marker or one half of a marker.
TextPieces ==
    { <<"[">>, <<"]">>, <<"a">>, YAML_BLOCK_START, YAML_BLOCK_END,
      SubSeq(YAML_BLOCK_START, 1, 7), SubSeq(YAML_BLOCK_START, 8, 14) }

RECURSIVE Concat(_)
Concat(pieces) == IF pieces = <<>> THEN <<>> ELSE Head(pieces) \o Concat(Tail(pieces))

Texts == {Concat(ps) : ps \in SeqsUpTo(TextPieces, MaxPieces)}

\* No scene is running (the base class's build_script returns no step); a
\* string is post-processed, in any order and any number of times.
InitText ==
    /\ script = <<>>
    /\ Constructed
    /\ text \in Texts
    /\ widget = NoWidget

StripYamlMarkers ==
    /\ text' = strip_yaml_markers(text)
    /\ UNCHANGED << sceneVars, widget >>

FixIncompleteMarkup ==
    /\ text' = fix_incomplete_markup(text)
    /\ UNCHANGED << sceneVars, widget >>

Clean ==
    /\ text' = clean(text)
    /\ UNCHANGED << sceneVars, widget >>

NextText ==
    \/ StripYamlMarkers
    \/ FixIncompleteMarkup
    \/ Clean

TextSpec == InitText /\ [][NextText]_vars

\* ---------------------------------------------------------------- rendering

GRADIENT_COLORS ==
    << "#ff6b00", "#ff7b00", "#ff8c00", "#ff9d00", "#ffae00",
       "#ffbf00", "#ffae00", "#ff9d00", "#ff8c00", "#ff7b00" >>

\* apply_gradient: every character is wrapped in a colour tag; the tag's
\* "bold " and its colour are one element each of the rendered sequence.
apply_gradient(str, offset) ==
    Concat([i \in 1..Len(str) |->
        << "[", "bold ", GRADIENT_COLORS[((i - 1 + offset) % Len(GRADIENT_COLORS)) + 1],
           "]", str[i], "[", "/", "]" >>])

\* content[:n]
Slice(content, n) ==
    IF n >= 0
    THEN SubSeq(content, 1, IF n < Len(content) THEN n ELSE Len(content))
    ELSE SubSeq(content, 1, IF Len(content) + n > 0 THEN Len(content) + n ELSE 0)

\* TextSegment.render
render(seg) ==
    IF seg.is_gradient
    THEN apply_gradient(Slice(seg.content, seg.visible_length), seg.gradient_offset)
    ELSE fix_incomplete_markup(Slice(seg.content, seg.visible_length))

\* What _render_all hands to the text widget: a text run, or the Syntax block
\* of a CodeSegment (its content is never a Path here, so it has no title).
Renderable(type, content, language) ==
    [type |-> type, content |-> content, language |-> language]

\* `if current_text_buffer: renderables.append(_strip_yaml_markers(...))`
flush(renderables, current_text_buffer) ==
    IF current_text_buffer # <<>>
    THEN Append(renderables, Renderable("text", strip_yaml_markers(current_text_buffer), ""))
    ELSE renderables

\* Faulty variant of render_loop: the text buffer is not emptied after a
\* CodeSegment.
RECURSIVE render_loop_keeps_buffer(_, _, _, _)
render_loop_keeps_buffer(s, ids, renderables, current_text_buffer) ==
    IF ids = <<>> THEN flush(renderables, current_text_buffer)
    ELSE LET segment == s.segment_store[Head(ids)]
         IN  IF segment.type = "text"
             THEN render_loop_keeps_buffer(s, Tail(ids), renderables,
                              current_text_buffer \o render(segment))
             ELSE render_loop_keeps_buffer(s, Tail(ids),
                    Append(flush(renderables, current_text_buffer),
                           Renderable("code", segment.content, segment.language)),
                    current_text_buffer)

\* The loop of _render_all over the buffer ids, and its final flush.
RECURSIVE render_loop(_, _, _, _)
render_loop(s, ids, renderables, current_text_buffer) ==
    IF ids = <<>> THEN flush(renderables, current_text_buffer)
    ELSE LET segment == s.segment_store[Head(ids)]
         IN  IF segment.type = "text"
             THEN render_loop(s, Tail(ids), renderables,
                              current_text_buffer \o render(segment))
             ELSE render_loop(s, Tail(ids),
                    Append(flush(renderables, current_text_buffer),
                           Renderable("code", segment.content, segment.language)),
                    <<>>)

\* _render_all: the renderables the text widget is updated with. Every handler
\* that changes what the buffer renders to ends with _render_all, so this is
\* what the widget shows in every state.
render_all(s) == render_loop(s, s.segments, <<>>, <<>>)

\* ------------------------------------------------------- one Type step alone

\* Most pieces the content of the Type step of RevealSpec is made of.
MaxRevealPieces == 3

\* What format_yaml_preview returns, as short as it can be: the two markers
\* around the lines of the preview.
YamlRegion == YAML_BLOCK_START \o <<"y", NL, "z">> \o YAML_BLOCK_END

\* The resolved contents typed: a letter, a line break and a YAML region, in
\* any order.
RevealPieces == { <<"A">>, <<NL>>, YamlRegion }

RevealScripts ==
    { <<Type(Concat(ps))>> : ps \in SeqsUpTo(RevealPieces, MaxRevealPieces) }

\* A scene whose script is one Type step.
InitReveal ==
    /\ script \in RevealScripts
    /\ Constructed
    /\ text = <<>>
    /\ widget = NoWidget

\* No key is awaited and no terminal is mounted: what is left of Next is
NextReveal ==
    \/ OnMount
    \/ OnUnmount
    \/ \E i \in 1..Len(timers) : TypeTick(i)
    \/ \E i \in 1..Len(timers) : ResumeTyping(i)
    \/ AnimateFrame

RevealSpec == InitReveal /\ [][NextReveal]_vars

\* str.find(marker): the 0-based position of the first occurrence, -1 if none.
Find(str, marker) ==
    LET at == {i \in 0..(Len(str) - Len(marker)) :
                    SubSeq(str, i + 1, i + Len(marker)) = marker}
    IN  IF at = {} THEN 0 - 1 ELSE CHOOSE i \in at : \A j \in at : i <= j

\* ------------------------------- DataConfigScene and TransformScene (widget)

\* Most pieces the two texts of a hand-written scene are made of together.
MaxTypedPieces == 3

\* The two hand-written scenes that type one text in two parts, with their
\* own fields under one name each:
\*   first_text    PART1_TEXT / TRANSFORM_INTRO
\*   part1_done    _part1_done / _intro_done
\*   waiting       _waiting_for_down / _waiting_for_command
\*   timers        the scene's armed timers (Timer, with seg = 0)
\*   menus         the mounted ActionMenu widgets (TransformScene)
\*   choices       ActionSelected messages posted, not yet handled
\*   commands_run  run_command calls made by the scene (TransformScene)
\*   skip_notices  "Skipping transform..." notices written (TransformScene)
\* What the text widget shows is _render_text(char_index), a function of
\* char_index.
\* DataConfigScene searches the markers in FULL_TEXT, TransformScene in
\* TRANSFORM_INTRO.
Widget(name, first_text, full_text) ==
    [name |-> name,
     lifecycle |-> "new",
     first_text |-> first_text,
     full_text |-> full_text,
     char_index |-> 0,
     timers |-> <<>>,
     part1_done |-> FALSE,
     waiting |-> FALSE,
     completed |-> FALSE,
     in_yaml_block |-> FALSE,
     terminal_shown |-> FALSE,
     input_disabled |-> FALSE,
     menus |-> <<>>,
     choices |-> <<>>,
     commands_run |-> 0,
     skip_notices |-> 0,
     navigation_hint |-> "",
     yaml_start_index |->
        Find(IF name = "TransformScene" THEN first_text ELSE full_text, YAML_BLOCK_START),
     yaml_end_index |->
        Find(IF name = "TransformScene" THEN first_text ELSE full_text, YAML_BLOCK_END)]

\* _is_in_yaml_block
is_in_yaml_block(w) ==
    IF w.yaml_start_index = 0 - 1 THEN FALSE
    ELSE w.yaml_start_index < w.char_index /\ w.char_index < w.yaml_end_index

\* _resume_typing_after_pause
resume_typing_after_pause(w) ==
    [w EXCEPT !.timers =
        set_interval(@, "typing", 0, "_typing_timer",
                     IF w.in_yaml_block THEN YAML_TYPING_SPEED ELSE TYPING_SPEED)]

\* The end of the first part, found by _type_next_char: DataConfigScene starts
\* the hint animation, TransformScene shows the terminal and mounts a menu.
first_part_done(w) ==
    LET w1 == [w EXCEPT !.part1_done = TRUE,
                        !.waiting = TRUE,
                        !.timers = stop_timer_safely(@, "_typing_timer")]
    IN  IF w.name = "DataConfigScene"
        THEN [w1 EXCEPT !.timers =
                set_interval(@, "hint", 0, "_nav_hint_animation_timer", 0)]
        ELSE [w1 EXCEPT !.terminal_shown = TRUE,
                        !.menus = Append(@, 0),
                        !.navigation_hint = "Select an option to continue"]

\* Faulty variant of type_next_char: the interval is not stopped when the
\* speed changes.
type_next_char_keeps_interval(w) ==
    IF ~w.part1_done /\ w.char_index >= Len(w.first_text) THEN first_part_done(w)
    ELSE IF w.part1_done /\ w.char_index >= Len(w.full_text)
    THEN IF ~w.completed
         THEN [w EXCEPT !.completed = TRUE,
                        !.navigation_hint =
                            IF w.name = "DataConfigScene"
                            THEN "Press Enter to continue to next step"
                            ELSE "Press Enter to continue",
                        !.timers = stop_timer_safely(@, "_typing_timer")]
         ELSE w
    ELSE
        LET w1 == [w EXCEPT !.char_index = @ + 1]
            w2 == [w1 EXCEPT !.in_yaml_block = is_in_yaml_block(w1)]
        IN  IF w.in_yaml_block # w2.in_yaml_block
            THEN [w2 EXCEPT !.timers =
                    set_interval(@, "typing", 0, "_typing_timer",
                        IF w2.in_yaml_block THEN YAML_TYPING_SPEED ELSE TYPING_SPEED)]
            ELSE IF /\ ~w2.in_yaml_block
                    /\ w2.char_index > 0
                    /\ w.full_text[w2.char_index] = NL
                    /\ (w2.char_index < 2 \/ w.full_text[w2.char_index - 1] # NL)
                 THEN [w2 EXCEPT !.timers =
                        set_timer(stop_timer_safely(@, "_typing_timer"), "resume", 0, 0)]
                 ELSE w2

\* _type_next_char
type_next_char(w) ==
    IF ~w.part1_done /\ w.char_index >= Len(w.first_text) THEN first_part_done(w)
    ELSE IF w.part1_done /\ w.char_index >= Len(w.full_text)
    THEN IF ~w.completed
         THEN [w EXCEPT !.completed = TRUE,
                        !.navigation_hint =
                            IF w.name = "DataConfigScene"
                            THEN "Press Enter to continue to next step"
                            ELSE "Press Enter to continue",
                        !.timers = stop_timer_safely(@, "_typing_timer")]
         ELSE w
    ELSE
        LET w1 == [w EXCEPT !.char_index = @ + 1]
            w2 == [w1 EXCEPT !.in_yaml_block = is_in_yaml_block(w1)]
        IN  IF w.in_yaml_block # w2.in_yaml_block
            THEN [w2 EXCEPT !.timers =
                    set_interval(stop_timer_safely(@, "_typing_timer"),
                        "typing", 0, "_typing_timer",
                        IF w2.in_yaml_block THEN YAML_TYPING_SPEED ELSE TYPING_SPEED)]
            ELSE IF /\ ~w2.in_yaml_block
                    /\ w2.char_index > 0
                    /\ w.full_text[w2.char_index] = NL
                    /\ (w2.char_index < 2 \/ w.full_text[w2.char_index - 1] # NL)
                 THEN [w2 EXCEPT !.timers =
                        set_timer(stop_timer_safely(@, "_typing_timer"), "resume", 0, 0)]
                 ELSE w2

\* DataConfigScene.action_next_part, bound to the "down" key
action_next_part(w) ==
    IF w.waiting
    THEN resume_typing_after_pause(
            [w EXCEPT !.waiting = FALSE,
                      !.timers = stop_timer_safely(@, "_nav_hint_animation_timer"),
                      !.navigation_hint = ""])
    ELSE w

\* TransformScene.on_action_menu_action_selected
transform_action_selected(w, action) ==
    LET w1 == [w EXCEPT !.menus = IF Len(@) > 0 THEN Tail(@) ELSE @]
    IN  IF w1.waiting
        THEN resume_typing_after_pause(
                [w1 EXCEPT !.input_disabled = w1.terminal_shown,
                           !.commands_run =
                                IF action = "Run" /\ w1.terminal_shown THEN @ + 1 ELSE @,
                           !.skip_notices =
                                IF action = "Skip" /\ w1.terminal_shown THEN @ + 1 ELSE @,
                           !.waiting = FALSE,
                           !.navigation_hint = ""])
        ELSE w1

\* on_unmount: DataConfigScene and CaseStudyScene stop their typing and hint
\* timers, the other scenes their typing timer; the scene's menu goes with it.
widget_on_unmount(w) ==
    [w EXCEPT !.lifecycle = "unmounted",
              !.menus = <<>>,
              !.choices = <<>>,
              !.timers =
                IF w.name \in {"DataConfigScene", "CaseStudyScene"}
                THEN stop_timer_safely(stop_timer_safely(@, "_typing_timer"),
                                       "_nav_hint_animation_timer")
                ELSE stop_timer_safely(@, "_typing_timer")]

\* A text file's content after .strip(): it neither starts nor ends with a
\* line break.
Stripped(n) ==
    {str \in {Concat(ps) : ps \in [1..n -> RevealPieces]} :
        str[1] # NL /\ str[Len(str)] # NL}

\* A scene is constructed on its two texts: the first part, and the full text
\* with "\n\n" and the second part after it.
InitTyped ==
    /\ script = <<>>
    /\ Constructed
    /\ text = <<>>
    /\ \E name \in {"DataConfigScene", "TransformScene"},
          n1 \in 1..(MaxTypedPieces - 1) :
        \E n2 \in 1..(MaxTypedPieces - n1) :
            \E first \in Stripped(n1), second \in Stripped(n2) :
                widget = Widget(name, first, first \o <<NL, NL>> \o second)

\* on_mount
WidgetMount ==
    /\ widget.lifecycle = "new"
    /\ widget' = [widget EXCEPT !.lifecycle = "mounted",
                                !.timers = set_interval(@, "typing", 0, "_typing_timer",
                                                        TYPING_SPEED)]
    /\ UNCHANGED << sceneVars, text >>

WidgetUnmount ==
    /\ widget.lifecycle = "mounted"
    /\ widget' = widget_on_unmount(widget)
    /\ UNCHANGED << sceneVars, text >>

\* The typing interval timers[i] ticks.
TypeNextChar(i) ==
    /\ widget.lifecycle \in {"mounted", "unmounted"}
    /\ i \in 1..Len(widget.timers)
    /\ widget.timers[i].kind = "typing"
    /\ widget' = type_next_char(widget)
    /\ UNCHANGED << sceneVars, text >>

\* The one-shot timer timers[i] of a narrative pause fires.
ResumeTypingAfterPause(i) ==
    /\ widget.lifecycle \in {"mounted", "unmounted"}
    /\ i \in 1..Len(widget.timers)
    /\ widget.timers[i].kind = "resume"
    /\ widget' = resume_typing_after_pause([widget EXCEPT !.timers = RemoveAt(@, i)])
    /\ UNCHANGED << sceneVars, text >>

\* DataConfigScene._animate_down_hint (the hint's colour phase is not modelled)
WidgetAnimateDownHint ==
    /\ widget.lifecycle \in {"mounted", "unmounted"}
    /\ \E i \in 1..Len(widget.timers) : widget.timers[i].kind = "hint"
    /\ widget' = [widget EXCEPT !.navigation_hint = "press down to continue"]
    /\ UNCHANGED << sceneVars, text >>

\* The user presses the "down" key in DataConfigScene.
ActionNextPart ==
    /\ widget.lifecycle = "mounted"
    /\ widget.name = "DataConfigScene"
    /\ widget' = action_next_part(widget)
    /\ UNCHANGED << sceneVars, text >>

\* The user presses a key in the menu a scene has mounted.
WidgetMenuKey(k) ==
    /\ widget.lifecycle = "mounted"
    /\ Len(widget.menus) > 0
    /\ k = "enter" => Len(widget.choices) < MaxPendingChoices
    /\ widget' = [widget EXCEPT
            !.menus[1] = menu_on_key(@, k),
            !.choices = IF k = "enter"
                        THEN Append(@, MenuOptions[widget.menus[1] + 1])
                        ELSE @]
    /\ UNCHANGED << sceneVars, text >>

\* An ActionSelected message reaches TransformScene.
WidgetActionSelected ==
    /\ widget.lifecycle = "mounted"
    /\ Len(widget.choices) > 0
    /\ widget' = transform_action_selected(
                    [widget EXCEPT !.choices = Tail(@)], Head(widget.choices))
    /\ UNCHANGED << sceneVars, text >>

NextTyped ==
    \/ WidgetMount
    \/ WidgetUnmount
    \/ \E i \in 1..Len(widget.timers) : TypeNextChar(i)
    \/ \E i \in 1..Len(widget.timers) : ResumeTypingAfterPause(i)
    \/ WidgetAnimateDownHint
    \/ ActionNextPart
    \/ \E k \in MenuKeys : WidgetMenuKey(k)
    \/ WidgetActionSelected

TypedSpec == InitTyped /\ [][NextTyped]_vars

\* ------------------------------------------------- StimulusRunScene (widget)

\* Most characters of one text file of StimulusRunScene.
MaxRunPartLen == 3

\* INSTALL_COMMAND, SPLIT_COMMAND, LS_COMMAND, ANALYSIS_COMMAND
RunCommands == <<"install", "split", "ls", "analysis">>

\* The scene types five parts and stops at the end of each of the first four
\* for a command:
\*   ends          the length of the text up to the end of each part
\*   done          _part1_done .. _part4_done
\*   waiting       _waiting_for_install, _split, _ls, _analysis
\*   terminal      _terminal (the one TerminalWidget, reused)
\*   running       the commands whose run_command is in flight
StimulusRunScene(parts) ==
    [name |-> "StimulusRunScene",
     lifecycle |-> "new",
     full_text |-> Concat(parts),
     ends |-> [g \in 1..Len(parts) |-> Len(Concat(SubSeq(parts, 1, g)))],
     char_index |-> 0,
     timers |-> <<>>,
     done |-> [g \in 1..4 |-> FALSE],
     waiting |-> [g \in 1..4 |-> FALSE],
     terminal_shown |-> FALSE,
     terminal |-> NoTerminal,
     menus |-> <<>>,
     choices |-> <<>>,
     running |-> <<>>,
     completed |-> FALSE,
     navigation_hint |-> ""]

\* The end of part g, found by _type_next_char: the typing stops, the terminal
\* gets the command of the part and a menu is mounted.
run_part_done(w, g) ==
    [w EXCEPT !.done[g] = TRUE,
              !.waiting[g] = TRUE,
              !.timers = stop_timer_safely(@, "_typing_timer"),
              !.terminal_shown = IF g = 1 THEN TRUE ELSE @,
              !.terminal =
                    IF g = 1
                    THEN IF w.terminal_shown THEN @
                         ELSE TerminalWidget(RunCommands[1], PipTimeout)
                    ELSE IF @.exists
                         THEN [@ EXCEPT !.value = RunCommands[g], !.disabled = FALSE]
                         ELSE @,
              !.menus = Append(@, 0),
              !.navigation_hint = "Select an option to continue"]

\* One of the checks "if we reached end of Part g" (g = 2, 3, 4).
run_check_part(w, g) ==
    IF w.done[g - 1] /\ w.char_index >= w.ends[g] /\ ~w.done[g]
    THEN run_part_done(w, g)
    ELSE w

\* The check of part g makes _type_next_char return.
run_check_returns(w, g) ==
    w.done[g - 1] /\ w.char_index >= w.ends[g] /\ w.waiting[g]

\* StimulusRunScene._type_next_char
run_type_next_char(w) ==
    LET w2 == run_check_part(w, 2)
        w3 == run_check_part(w2, 3)
        w4 == run_check_part(w3, 4)
        typed == [w4 EXCEPT !.char_index = @ + 1]
    IN  IF ~w.done[1] /\ w.char_index >= w.ends[1] THEN run_part_done(w, 1)
        ELSE IF run_check_returns(w2, 2) THEN w2
        ELSE IF run_check_returns(w3, 3) THEN w3
        ELSE IF run_check_returns(w4, 4) THEN w4
        ELSE IF w4.done[4] /\ w4.char_index >= Len(w4.full_text)
        THEN IF ~w4.completed
             THEN [w4 EXCEPT !.completed = TRUE,
                             !.navigation_hint = "Press Enter to continue",
                             !.timers = stop_timer_safely(@, "_typing_timer")]
             ELSE w4
        ELSE IF /\ typed.char_index > 0
                /\ w.full_text[typed.char_index] = NL
                /\ (typed.char_index < 2 \/ w.full_text[typed.char_index - 1] # NL)
             THEN [typed EXCEPT !.timers =
                        set_timer(stop_timer_safely(@, "_typing_timer"), "resume", 0, 0)]
             ELSE typed

\* StimulusRunScene._resume_typing_after_pause
run_resume_typing_after_pause(w) ==
    [w EXCEPT !.timers = set_interval(@, "typing", 0, "_typing_timer", TYPING_SPEED)]

\* StimulusRunScene.on_action_menu_action_selected
run_action_selected(w, action) ==
    LET w1 == [w EXCEPT !.menus = IF Len(@) > 0 THEN Tail(@) ELSE @]
        pending == {g \in 1..4 : w.waiting[g]}
    IN  IF pending = {} THEN w1
        ELSE LET g == CHOOSE x \in pending : \A y \in pending : x <= y
             IN  run_resume_typing_after_pause(
                    [w1 EXCEPT
                        !.terminal =
                            IF ~@.exists THEN @
                            ELSE IF action = "Skip"
                                 THEN [disable_input(@) EXCEPT !.skip_notices = @ + 1]
                                 ELSE disable_input(@),
                        !.running =
                            IF action = "Run" /\ w.terminal.exists
                            THEN Append(@, RunCommands[g])
                            ELSE @,
                        !.waiting[g] = FALSE,
                        !.navigation_hint = ""])

\* The text files of the scene, stripped.
RunTexts ==
    {str \in UNION {[1..n -> {"A", NL}] : n \in 1..MaxRunPartLen} :
        str[1] # NL /\ str[Len(str)] # NL}

InitRun ==
    /\ script = <<>>
    /\ Constructed
    /\ text = <<>>
    /\ \E first \in RunTexts, later \in RunTexts :
        widget = StimulusRunScene(
                    <<first>> \o [g \in 1..4 |-> <<NL, NL>> \o later])

\* A timer of the scene fires: the typing interval, or the one-shot timer of
\* a narrative pause.
RunTimerFires(i) ==
    /\ widget.lifecycle \in {"mounted", "unmounted"}
    /\ i \in 1..Len(widget.timers)
    /\ widget' = IF widget.timers[i].kind = "typing"
                 THEN run_type_next_char(widget)
                 ELSE run_resume_typing_after_pause(
                        [widget EXCEPT !.timers = RemoveAt(@, i)])
    /\ UNCHANGED << sceneVars, text >>

\* An ActionSelected message reaches the scene.
RunActionSelected ==
    /\ widget.lifecycle = "mounted"
    /\ Len(widget.choices) > 0
    /\ widget' = run_action_selected(
                    [widget EXCEPT !.choices = Tail(@)], Head(widget.choices))
    /\ UNCHANGED << sceneVars, text >>

\* run_command of the command running[i] returns, however the command ended.
RunCommandReturns(i) ==
    /\ widget.lifecycle \in {"mounted", "unmounted"}
    /\ i \in 1..Len(widget.running)
    /\ widget' = [widget EXCEPT !.running = RemoveAt(@, i)]
    /\ UNCHANGED << sceneVars, text >>

\* on_mount, on_unmount and the menu are those of TransformScene.
NextRun ==
    \/ WidgetMount
    \/ WidgetUnmount
    \/ \E i \in 1..Len(widget.timers) : RunTimerFires(i)
    \/ \E k \in MenuKeys : WidgetMenuKey(k)
    \/ RunActionSelected
    \/ \E i \in 1..Len(widget.running) : RunCommandReturns(i)

RunSpec == InitRun /\ [][NextRun]_vars

\* ----------------------------------------------------- WelcomeScene (widget)

\* len(NAV_HINT_TEXT)
NAV_HINT_LEN == 48

\* "Welcome to STIMULUS\n\n", the head of INTRO_TEXT
WelcomeHeader ==
    << "W", "e", "l", "c", "o", "m", "e", " ", "t", "o", " ",
       "S", "T", "I", "M", "U", "L", "U", "S", NL, NL >>

STIMULUS_START == Len(<< "W", "e", "l", "c", "o", "m", "e", " ", "t", "o", " " >>)

STIMULUS_END == STIMULUS_START + Len(<< "S", "T", "I", "M", "U", "L", "U", "S" >>)

\* WelcomeScene.__init__, on the text of welcome.txt; full_text is INTRO_TEXT.
\* The timers are the typing interval ("typing"), the gradient animation
\* ("gradient"), the one-shot resumptions of the gradient pause and of a
\* narrative pause ("resume"), the delayed start of the hint ("show_hint") and
\* the hint's typing interval ("hint").
WelcomeScene(content) ==
    [name |-> "WelcomeScene",
     lifecycle |-> "new",
     full_text |-> WelcomeHeader \o content,
     char_index |-> 0,
     gradient_offset |-> 0,
     typing_done |-> FALSE,
     paused |-> FALSE,
     timers |-> <<>>,
     nav_hint_char_index |-> 0,
     hint_hidden |-> TRUE]

\* WelcomeScene._type_next_char
welcome_type_next_char(w) ==
    IF w.char_index >= Len(w.full_text)
    THEN IF ~w.typing_done
         THEN [w EXCEPT !.typing_done = TRUE,
                        !.timers = set_timer(stop_timer_safely(@, "_typing_timer"),
                                             "show_hint", 0, 0)]
         ELSE w
    ELSE IF w.char_index = STIMULUS_END /\ ~w.paused
    THEN [w EXCEPT !.paused = TRUE,
                   !.timers = set_timer(
                        set_interval(stop_timer_safely(@, "_typing_timer"),
                                     "gradient", 0, "", 0),
                        "resume", 0, 0)]
    ELSE LET typed == [w EXCEPT !.char_index = @ + 1]
         IN  IF /\ typed.char_index > 0
                /\ w.full_text[typed.char_index] = NL
                /\ (typed.char_index < 2 \/ w.full_text[typed.char_index - 1] # NL)
             THEN [typed EXCEPT !.timers =
                        set_timer(stop_timer_safely(@, "_typing_timer"), "resume", 0, 0)]
             ELSE typed

\* WelcomeScene._type_nav_hint_char
type_nav_hint_char(w) ==
    IF w.nav_hint_char_index >= NAV_HINT_LEN
    THEN [w EXCEPT !.timers = stop_timer_safely(@, "_nav_hint_typing_timer")]
    ELSE [w EXCEPT !.nav_hint_char_index = @ + 1]

\* The callback of the timer w.timers[i]: _type_next_char, _animate_gradient,
\* _resume_typing or _resume_typing_after_pause, _show_navigation_hint,
\* _type_nav_hint_char. A one-shot timer is gone once it has fired.
welcome_timer_callback(w, i) ==
    LET kind == w.timers[i].kind
        fired == [w EXCEPT !.timers = RemoveAt(@, i)]
    IN  CASE kind = "typing" -> welcome_type_next_char(w)
          [] kind = "gradient" ->
                [w EXCEPT !.gradient_offset = cycle_gradient_offset(@)]
          [] kind = "resume" ->
                [fired EXCEPT !.timers =
                    set_interval(@, "typing", 0, "_typing_timer", TYPING_SPEED)]
          [] kind = "show_hint" ->
                [fired EXCEPT !.hint_hidden = FALSE,
                              !.timers = set_interval(@, "hint", 0,
                                                      "_nav_hint_typing_timer", 0)]
          [] kind = "hint" -> type_nav_hint_char(w)

InitWelcome ==
    /\ script = <<>>
    /\ Constructed
    /\ text = <<>>
    /\ \E content \in RunTexts : widget = WelcomeScene(content)

\* WelcomeScene.on_mount: the typing starts at 0.08 s per character.
WelcomeMount ==
    /\ widget.lifecycle = "new"
    /\ widget' = [widget EXCEPT !.lifecycle = "mounted",
                                !.timers = set_interval(@, "typing", 0, "_typing_timer", 80)]
    /\ UNCHANGED << sceneVars, text >>

\* WelcomeScene.on_unmount
WelcomeUnmount ==
    /\ widget.lifecycle = "mounted"
    /\ widget' = [widget EXCEPT
            !.lifecycle = "unmounted",
            !.timers = stop_timer_safely(stop_timer_safely(@, "_typing_timer"),
                                         "_nav_hint_typing_timer")]
    /\ UNCHANGED << sceneVars, text >>

\* The timer timers[i] of the scene fires.
WelcomeTimerFires(i) ==
    /\ widget.lifecycle \in {"mounted", "unmounted"}
    /\ i \in 1..Len(widget.timers)
    /\ widget' = welcome_timer_callback(widget, i)
    /\ UNCHANGED << sceneVars, text >>

NextWelcome ==
    \/ WelcomeMount
    \/ WelcomeUnmount
    \/ \E i \in 1..Len(widget.timers) : WelcomeTimerFires(i)

WelcomeSpec == InitWelcome /\ [][NextWelcome]_vars

\* --------------------------------------------------- CaseStudyScene (widget)

\* CaseStudyScene.__init__, on its three parts (PART1_TEXT, PART2_TEXT,
\* PART3_TEXT); ends[g] is the length of the text up to the end of part g.
\*   menus         the ActionMenu widgets in the scene's DOM
\*   menu_removing remove() has been called on the menu; whether the menu has
\*                 left the DOM when the next event is handled is the UI
\*                 framework's scheduling
\*   failed        a handler has raised an exception it does not catch, which
\*                 ends the app
CaseStudyScene(parts) ==
    [name |-> "CaseStudyScene",
     lifecycle |-> "new",
     full_text |-> Concat(parts),
     ends |-> [g \in 1..Len(parts) |-> Len(Concat(SubSeq(parts, 1, g)))],
     char_index |-> 0,
     timers |-> <<>>,
     part1_done |-> FALSE,
     part2_done |-> FALSE,
     waiting_for_down |-> FALSE,
     waiting_for_action |-> FALSE,
     command_shown |-> FALSE,
     completed |-> FALSE,
     terminal |-> NoTerminal,
     menus |-> <<>>,
     menu_removing |-> FALSE,
     choices |-> <<>>,
     running |-> <<>>,
     navigation_hint |-> "",
     failed |-> FALSE]

\* CaseStudyScene._type_next_char
case_type_next_char(w) ==
    LET at_part2_end == w.part1_done /\ w.char_index >= w.ends[2]
        w2 == IF at_part2_end /\ ~w.part2_done
              THEN [w EXCEPT
                        !.part2_done = TRUE,
                        !.waiting_for_action = TRUE,
                        !.timers = stop_timer_safely(@, "_typing_timer"),
                        !.command_shown = TRUE,
                        !.terminal = IF w.command_shown THEN @
                                     ELSE TerminalWidget("visualize", 10),
                        !.menus = IF w.command_shown THEN @ ELSE Append(@, 0),
                        !.navigation_hint = "Select an option to continue"]
              ELSE w
        typed == [w2 EXCEPT !.char_index = @ + 1]
    IN  IF ~w.part1_done /\ w.char_index >= w.ends[1]
        THEN [w EXCEPT !.part1_done = TRUE,
                       !.waiting_for_down = TRUE,
                       !.timers = set_interval(stop_timer_safely(@, "_typing_timer"),
                                        "hint", 0, "_nav_hint_animation_timer", 0)]
        ELSE IF at_part2_end /\ w2.waiting_for_action THEN w2
        ELSE IF w2.part2_done /\ w2.char_index >= Len(w2.full_text)
        THEN IF ~w2.completed
             THEN [w2 EXCEPT !.completed = TRUE,
                             !.navigation_hint = "Press Enter to continue to next step",
                             !.timers = stop_timer_safely(@, "_typing_timer")]
             ELSE w2
        ELSE IF /\ typed.char_index > 0
                /\ w.full_text[typed.char_index] = NL
                /\ (typed.char_index < 2 \/ w.full_text[typed.char_index - 1] # NL)
             THEN [typed EXCEPT !.timers =
                        set_timer(stop_timer_safely(@, "_typing_timer"), "resume", 0, 0)]
             ELSE typed

\* CaseStudyScene.action_next_part, bound to the "down" key
case_action_next_part(w) ==
    IF w.waiting_for_down
    THEN run_resume_typing_after_pause(
            [w EXCEPT !.waiting_for_down = FALSE,
                      !.timers = stop_timer_safely(@, "_nav_hint_animation_timer"),
                      !.navigation_hint = ""])
    ELSE w

\* CaseStudyScene.on_action_menu_action_selected: query_one(ActionMenu) raises
\* NoMatches when no menu is in the DOM, and nothing catches it.
case_action_selected(w, action) ==
    IF Len(w.menus) = 0 THEN [w EXCEPT !.failed = TRUE]
    ELSE run_resume_typing_after_pause(
            [w EXCEPT
                !.menu_removing = TRUE,
                !.terminal =
                    IF ~@.exists THEN @
                    ELSE IF action = "Skip"
                         THEN [disable_input(@) EXCEPT !.skip_notices = @ + 1]
                         ELSE disable_input(@),
                !.running = IF action = "Run" /\ w.terminal.exists
                            THEN Append(@, w.terminal.value)
                            ELSE @,
                !.waiting_for_action = FALSE,
                !.navigation_hint = ""])

InitCase ==
    /\ script = <<>>
    /\ Constructed
    /\ text = <<>>
    /\ \E first \in RunTexts, later \in RunTexts :
        widget = CaseStudyScene(
                    <<first>> \o [g \in 1..2 |-> <<NL, NL>> \o later])

\* A timer of the scene fires: the typing interval, or the one-shot timer of
\* a narrative pause.
CaseTimerFires(i) ==
    /\ widget.lifecycle \in {"mounted", "unmounted"}
    /\ ~widget.failed
    /\ i \in 1..Len(widget.timers)
    /\ widget.timers[i].kind \in {"typing", "resume"}
    /\ widget' = IF widget.timers[i].kind = "typing"
                 THEN case_type_next_char(widget)
                 ELSE run_resume_typing_after_pause(
                        [widget EXCEPT !.timers = RemoveAt(@, i)])
    /\ UNCHANGED << sceneVars, text >>

\* The user presses the "down" key in CaseStudyScene.
CaseNextPart ==
    /\ widget.lifecycle = "mounted"
    /\ ~widget.failed
    /\ widget' = case_action_next_part(widget)
    /\ UNCHANGED << sceneVars, text >>

\* An ActionSelected message reaches CaseStudyScene.
CaseActionSelected ==
    /\ widget.lifecycle = "mounted"
    /\ ~widget.failed
    /\ Len(widget.choices) > 0
    /\ widget' = case_action_selected(
                    [widget EXCEPT !.choices = Tail(@)], Head(widget.choices))
    /\ UNCHANGED << sceneVars, text >>

\* The menu on which remove() was called leaves the DOM.
CaseMenuPruned ==
    /\ widget.lifecycle = "mounted"
    /\ widget.menu_removing
    /\ Len(widget.menus) > 0
    /\ widget' = [widget EXCEPT !.menus = <<>>]
    /\ UNCHANGED << sceneVars, text >>

\* on_mount, on_unmount, the hint animation and the menu are those of the
\* other scenes; a menu being removed has lost the focus and gets no key;
\* nothing more happens once a handler has failed.
NextCase ==
    \/ WidgetMount
    \/ ~widget.failed /\ WidgetUnmount
    \/ \E i \in 1..Len(widget.timers) : CaseTimerFires(i)
    \/ ~widget.failed /\ WidgetAnimateDownHint
    \/ CaseNextPart
    \/ \E k \in MenuKeys :
            ~widget.failed /\ ~widget.menu_removing /\ WidgetMenuKey(k)
    \/ CaseActionSelected
    \/ CaseMenuPruned
    \/ \E i \in 1..Len(widget.running) : RunCommandReturns(i)

CaseSpec == InitCase /\ [][NextCase]_vars

\* --------------------------------------------- StimulusOnboardingApp (widget)

\* StimulusOnboardingApp.scenes
scenes ==
    << "WelcomeScene", "CaseStudyScene", "DataConfigScene", "StimulusRunScene",
       "TransformScene", "StimulusModelFileScene", "TuneScene" >>

\* scenes[i]() : a new instance of the scene class at the (0-based) index i.
\* Instances are told apart by the number of the construction; `pruning` is
\* set once the instance has been asked to leave the container.
SceneInstance(app, i) ==
    [cls |-> scenes[i + 1], id |-> app.instances + 1, pruning |-> FALSE]

\* The app after construction.
\*   main       the children of the "#main" container, in mount order
\*   instances  the number of scene instances constructed so far
\*   exited     exit() has been called
StimulusOnboardingApp ==
    [name                |-> "StimulusOnboardingApp",
     lifecycle           |-> "new",
     current_scene_index |-> 0,
     main                |-> << >>,
     instances           |-> 0,
     exited              |-> FALSE]

\* container.remove_children(): every child is asked to leave; nothing waits
\* for the removals, which complete one by one afterwards.
remove_children(main) ==
    [i \in DOMAIN main |-> [main[i] EXCEPT !.pruning = TRUE]]

\* container.mount(scene)
container_mount(app, i) ==
    [app EXCEPT !.main = Append(@, SceneInstance(app, i)),
                !.instances = @ + 1]

\* StimulusOnboardingApp.compose
compose(app) ==
    container_mount([app EXCEPT !.lifecycle = "running"], app.current_scene_index)

action_next_scene_keeps_children(app) ==
    IF app.current_scene_index < Len(scenes) - 1
    THEN container_mount([app EXCEPT !.current_scene_index = @ + 1],
                         app.current_scene_index + 1)
    ELSE [app EXCEPT !.exited = TRUE]

\* StimulusOnboardingApp.action_next_scene
action_next_scene(app) ==
    IF app.current_scene_index < Len(scenes) - 1
    THEN container_mount([app EXCEPT !.current_scene_index = @ + 1,
                                     !.main = remove_children(@)],
                         app.current_scene_index + 1)
    ELSE [app EXCEPT !.exited = TRUE]

InitApp ==
    /\ script = <<>>
    /\ Constructed
    /\ text = <<>>
    /\ widget = StimulusOnboardingApp

\* app.run(): the app starts and composes its layout.
AppCompose ==
    /\ widget.lifecycle = "new"
    /\ widget' = compose(widget)
    /\ UNCHANGED << sceneVars, text >>

\* Binding("enter", "next_scene"): an Enter key press reaches the app.
AppNextScene ==
    /\ widget.lifecycle = "running"
    /\ widget' = action_next_scene(widget)
    /\ UNCHANGED << sceneVars, text >>

\* The removal of the child main[i] completes: it leaves the container.
AppScenePruned(i) ==
    /\ i \in 1..Len(widget.main)
    /\ widget.main[i].pruning
    /\ widget' = [widget EXCEPT
            !.main = SubSeq(@, 1, i - 1) \o SubSeq(@, i + 1, Len(@))]
    /\ UNCHANGED << sceneVars, text >>

\* app.run() returns after exit(): the app closes and every widget is removed.
AppClose ==
    /\ widget.lifecycle = "running"
    /\ widget.exited
    /\ widget' = [widget EXCEPT !.lifecycle = "closed",
                                !.main = remove_children(@)]
    /\ UNCHANGED << sceneVars, text >>

NextApp ==
    \/ AppCompose
    \/ AppNextScene
    \/ \E i \in 1..Len(widget.main) : AppScenePruned(i)
    \/ AppClose

AppSpec == InitApp /\ [][NextApp]_vars

\* ==================================================================== claims

SuspendingKinds == {"Type", "Terminal", "Wait", "WaitForInput"}

\* The cursor after one advance from cursor i: past every auto-advancing step
\* up to and including the next suspending step, or the end of the script.
RECURSIVE StopAfter(_)
StopAfter(i) ==
    IF i >= Len(script) THEN i
    ELSE IF script[i + 1].kind \in SuspendingKinds THEN i + 1
    ELSE StopAfter(i + 1)

\* The steps dispatched by one advance from cursor i to cursor j.
StepsBetween(i, j) == [n \in 1..(j - i) |-> i + n]

\* The scene's own command completes, however it ends.
SceneCommandCompletes ==
    \E i \in 1..Len(workers) :
        /\ workers[i].via = "scene"
        /\ \/ SpawnFails(i)
           \/ ReadRaises(i)
           \/ TimeoutFires(i)
           \/ \E status \in {"ok", "nonzero"} : ProcessExits(i, status)

PendingTimers(kinds) == {i \in 1..Len(timers) : timers[i].kind \in kinds}

NumSuspensions ==
    (IF waiting_for_input THEN 1 ELSE 0)
    + (IF waiting_for_command THEN 1 ELSE 0)
    + (IF waiting_for_command_completion THEN 1 ELSE 0)

\* C1: while the interpreter is suspended awaiting a key, a Run/Skip choice or
\* the completion of a command, no event changes the script cursor except the
\* event that resolves that suspension: the expected key, a menu choice, the
\* completion of the scene's command.
C1_CursorHeldWhileSuspended ==
    [][ /\ (waiting_for_input /\ current_step_index' # current_step_index)
            => OnKey(expected_key)
        /\ (waiting_for_command /\ current_step_index' # current_step_index)
            => OnActionSelected
        /\ (waiting_for_command_completion /\ current_step_index' # current_step_index)
            => SceneCommandCompletes ]_vars

\* C1 witness: the cursor rests on a first Terminal step whose command is
\* running, with a further step to go, while a command submitted in the Input
\* is running beside it.
C1_Witness ==
    /\ waiting_for_command_completion
    /\ current_step_index = 1
    /\ Len(script) = 2
    /\ \E i \in 1..Len(workers) : workers[i].via = "input"

\* C2: at most one of the three suspension flags is set, and none is set while
\* a reveal (typing interval or pending narrative-pause resumption) or a Wait
\* timer is outstanding.
C2_OneSuspension ==
    /\ NumSuspensions <= 1
    /\ NumSuspensions = 1 => PendingTimers({"typing", "resume", "wait"}) = {}

\* C2 witness: a Type step has finished its reveal and the next step, a
\* WaitForInput, suspends the interpreter.
C2_Witness ==
    /\ Len(script) = 2
    /\ script[1].kind = "Type"
    /\ waiting_for_input
    /\ current_step_index = 2

\* C3: while suspended on WaitForInput{key=k}, a key other than k changes
\* nothing; the key k advances the script exactly once, past the steps up to
\* and including the next suspending step, and the interpreter then awaits a
\* key only if a later WaitForInput step was dispatched.
C3_WaitForInputResolution ==
    [][ \A k \in Keys :
            (waiting_for_input /\ OnKey(k)) =>
                IF k # expected_key
                THEN UNCHANGED progVars /\ UNCHANGED dispatched
                ELSE /\ current_step_index' = StopAfter(current_step_index)
                     /\ dispatched' = dispatched \o
                            StepsBetween(current_step_index, current_step_index')
                     /\ waiting_for_input' =>
                            /\ current_step_index' > current_step_index
                            /\ script[current_step_index'].kind = "WaitForInput" ]_vars

\* C3 witness: a first WaitForInput step has been resolved and the step after
\* it dispatched, once.
C3_Witness ==
    /\ Len(script) = 2
    /\ script[1].kind = "WaitForInput"
    /\ current_step_index = 2
    /\ dispatched = <<1, 2>>

\* C4: a key that arrives while no key is awaited, or that is not the expected
\* key, changes no field of the scene (nothing is buffered), and a
\* WaitForInput step reached later suspends the interpreter on its own key
\* whatever keys came before.
C4_KeysNotBuffered ==
    [][ /\ \A k \in Keys :
                (OnKey(k) /\ (~waiting_for_input \/ k # expected_key))
                    => UNCHANGED progVars
        /\ (/\ current_step_index' # current_step_index
            /\ script[current_step_index'].kind = "WaitForInput")
                => /\ waiting_for_input'
                   /\ expected_key' = script[current_step_index'].key ]_vars

\* C4 witness: a WaitForInput step reached after a Wait step, during which
\* keys (its own key among them) could only be ignored, awaits its key.
C4_Witness ==
    /\ Len(script) = 2
    /\ script[1].kind = "Wait"
    /\ script[2].kind = "WaitForInput"
    /\ waiting_for_input
    /\ expected_key = script[2].key

\* The text of the buffer: the visible part of every text segment, in order.
RECURSIVE BufferText(_)
BufferText(ids) ==
    IF ids = <<>> THEN <<>>
    ELSE LET seg == segment_store[Head(ids)]
         IN  (IF seg.type = "text" THEN SubSeq(seg.content, 1, seg.visible_length) ELSE <<>>)
             \o BufferText(Tail(ids))

EndsWith(str, suffix) ==
    /\ Len(str) >= Len(suffix)
    /\ SubSeq(str, Len(str) - Len(suffix) + 1, Len(str)) = suffix

SkipSelected == OnActionSelected /\ waiting_for_command /\ Head(choices).action = "Skip"

RunSelected == OnActionSelected /\ waiting_for_command /\ Head(choices).action = "Run"

\* C5: choosing "Skip" on a Terminal step advances the script at once, to the
\* next suspending step, and starts no command for that step; for
\* [Terminal("ls"), Display("done")] a Skip leaves "done" in the buffer and no
\* command run by the scene.
C5_SkipDoesNotRun ==
    /\ [][ SkipSelected =>
            /\ run_calls' = run_calls
            /\ workers' = workers
            /\ ~waiting_for_command_completion'
            /\ current_step_index' = StopAfter(current_step_index)
            /\ dispatched' = dispatched \o
                    StepsBetween(current_step_index, current_step_index') ]_vars
    /\ [](( /\ script = << Terminal("ls"), Display(<<"d", "o", "n", "e">>, FALSE) >>
            /\ terminal.skip_notices = 1 )
          => /\ EndsWith(BufferText(segments), <<"d", "o", "n", "e">>)
             /\ run_calls = <<>>
             /\ current_step_index = 2)

\* C5 witness: [Terminal("ls"), Display("done")] after Skip.
C5_Witness ==
    /\ script = << Terminal("ls"), Display(<<"d", "o", "n", "e">>, FALSE) >>
    /\ terminal.skip_notices = 1
    /\ BufferText(segments) = <<"d", "o", "n", "e">>
    /\ workers = <<>>

\* C6: choosing "Run" on a Terminal step starts exactly one command, the
\* command of that Terminal step; the scene never runs a command twice for one
\* step, and every command it ran is the command of the step it ran it for.
C6_RunStartsStepCommandOnce ==
    /\ [][ RunSelected =>
            /\ script[current_step_index].kind = "Terminal"
            /\ run_calls' = Append(run_calls,
                    [cmd |-> script[current_step_index].command,
                     step |-> current_step_index])
            /\ workers' = Append(workers,
                    Worker(script[current_step_index].command, "scene")) ]_vars
    /\ [](/\ \A a, b \in 1..Len(run_calls) : run_calls[a].step = run_calls[b].step => a = b
          /\ \A a \in 1..Len(run_calls) :
                /\ script[run_calls[a].step].kind = "Terminal"
                /\ run_calls[a].cmd = script[run_calls[a].step].command)

\* C6 witness: two Terminal steps with different commands, both run.
C6_Witness ==
    /\ Len(run_calls) = 2
    /\ run_calls[1].cmd # run_calls[2].cmd

SceneWorkers == {i \in 1..Len(workers) : workers[i].via = "scene"}

\* C7: from "Run" until the command completes the interpreter awaits the
\* completion, the Input is disabled and the cursor stays on the Terminal step;
\* the completion dispatches the following steps, up to the next suspending
\* step, once.
C7_RunAwaitsCompletion ==
    /\ [](/\ waiting_for_command_completion <=> SceneWorkers # {}
          /\ Cardinality(SceneWorkers) <= 1
          /\ waiting_for_command_completion =>
                /\ terminal.exists /\ terminal.disabled
                /\ run_calls # <<>>
                /\ run_calls[Len(run_calls)].step = current_step_index
                /\ dispatched = StepsBetween(0, current_step_index))
    /\ [][ /\ RunSelected => /\ waiting_for_command_completion'
                             /\ current_step_index' = current_step_index
                             /\ dispatched' = dispatched
           /\ (waiting_for_command_completion /\ ~waiting_for_command_completion') =>
                /\ SceneCommandCompletes
                /\ current_step_index' = StopAfter(current_step_index)
                /\ dispatched' = dispatched \o
                        StepsBetween(current_step_index, current_step_index') ]_vars

\* C7 witness: the command of a first Terminal step has completed and the
\* step after it has been dispatched.
C7_Witness ==
    /\ Len(script) = 2
    /\ script[1].kind = "Terminal"
    /\ run_calls = << [cmd |-> script[1].command, step |-> 1] >>
    /\ ~waiting_for_command_completion
    /\ dispatched = <<1, 2>>

\* C8: a command of the scene that fails to start, raises, exits non-zero or
\* times out completes like a successful one: the suspension is cleared, the
\* script advances to the next suspending step and the command is not run
\* again.
C8_FailureIsCompletion ==
    [][ \A i \in 1..Len(workers) :
            ( /\ workers[i].via = "scene"
              /\ \/ SpawnFails(i)
                 \/ ReadRaises(i)
                 \/ TimeoutFires(i)
                 \/ ProcessExits(i, "nonzero")
                 \/ ProcessExits(i, "ok") )
            => /\ ~waiting_for_command_completion'
               /\ current_step_index' = StopAfter(current_step_index)
               /\ dispatched' = dispatched \o
                       StepsBetween(current_step_index, current_step_index')
               /\ run_calls' = run_calls
               /\ workers' = RemoveAt(workers, i) ]_vars

\* C8 witness: the command of a first Terminal step could not be started, and
\* the step after it has been dispatched.
C8_Witness ==
    /\ last_note = "failed_start"
    /\ Len(script) = 2
    /\ Len(run_calls) = 1
    /\ ~waiting_for_command_completion
    /\ current_step_index = 2

\* C9 (as claimed): while the interpreter awaits the completion of a command
\* whose process has been started, the timeout can still end the command (kill
\* the process and make run_command return), whatever the process has done
\* with its output streams.
C9_TimeoutEndsCommand ==
    \A i \in 1..Len(workers) :
        ( /\ waiting_for_command_completion
          /\ workers[i].via = "scene"
          /\ workers[i].phase \in {"read", "wait"} )
        => ENABLED TimeoutFires(i)

\* C10 (as claimed): at most one command is in flight at any time: no second
\* run_command starts while an earlier one has not returned.
C10_OneCommandInFlight == Len(workers) <= 1

\* Some timer of the scene fires and its callback runs.
TimerFires ==
    \/ \E i \in 1..Len(timers) : TypeTick(i) \/ ResumeTyping(i) \/ WaitTimerFires(i)
    \/ AnimateFrame
    \/ AnimateDownHint

\* C11 (as claimed): after on_unmount, a timer firing leaves the segment
\* buffer, the visible lengths and the cursor unchanged and arms no timer that
\* was not armed before.
C11_NoTimerEffectAfterUnmount ==
    [][ (lifecycle = "unmounted" /\ TimerFires) =>
            /\ UNCHANGED << segments, segment_store, current_step_index >>
            /\ \A j \in 1..Len(timers') : \E i \in 1..Len(timers) : timers'[j] = timers[i] ]_vars

\* The script has only steps that need no key, menu choice or command.
NoEventScript ==
    \A n \in 1..Len(script) :
        script[n].kind \in {"Display", "Gradient", "DisplayYaml", "DisplayPython", "Wait"}

\* C12: a mounted scene whose script has only Display, Gradient, DisplayYaml,
\* DisplayPython and Wait steps eventually reaches the end of its script, and
\* its cursor is moved by on_mount and by the Wait timers only (by no key).
C12_DisplayWaitScriptEnds ==
    /\ (NoEventScript /\ lifecycle = "mounted") ~> (current_step_index = Len(script))
    /\ [][ (NoEventScript /\ current_step_index' # current_step_index) =>
                (OnMount \/ \E i \in 1..Len(timers) : WaitTimerFires(i)) ]_vars

\* C12 witness: [Wait, Gradient] at its end, the Gradient text in the buffer.
C12_Witness ==
    /\ NoEventScript
    /\ Len(script) = 2
    /\ script[1].kind = "Wait"
    /\ script[2].kind = "Gradient"
    /\ current_step_index = Len(script)
    /\ Len(segments) = 1

\* The segment typed by a Type step is the one its reveal timers close over.
TypedSegments == {timers[i].seg : i \in PendingTimers({"typing", "resume"})}

AllFullyVisible ==
    \A id \in 1..Len(segment_store) :
        segment_store[id].visible_length = Len(segment_store[id].content)

\* C13: the visible_length of a segment never decreases, grows by at most one
\* in a step, and grows in reveal ticks only; while the scene is mounted the
\* reveal of every Type step comes to its end, whatever the content (empty,
\* ending in a line break, with two line breaks in a row): every segment
\* becomes fully visible and no reveal timer is left; and the reveal timers of
\* a segment go away only on teardown or in the tick that finds the segment
\* fully visible, which makes the script go on.
C13_RevealMonotoneAndComplete ==
    /\ [][ \A id \in 1..Len(segment_store) :
            /\ id <= Len(segment_store')
            /\ segment_store'[id].content = segment_store[id].content
            /\ segment_store'[id].visible_length >= segment_store[id].visible_length
            /\ segment_store'[id].visible_length <= segment_store[id].visible_length + 1
            /\ segment_store'[id].visible_length # segment_store[id].visible_length
                    => \E i \in 1..Len(timers) : TypeTick(i) /\ timers[i].seg = id ]_vars
    /\ (lifecycle = "mounted") ~>
            (lifecycle = "unmounted" \/ (AllFullyVisible /\ TypedSegments = {}))
    /\ [][ \A id \in TypedSegments :
            (id \notin TypedSegments' /\ ~OnUnmount) =>
                /\ segment_store[id].visible_length = Len(segment_store[id].content)
                /\ \E i \in 1..Len(timers) : TypeTick(i) /\ timers[i].seg = id
                /\ current_step_index' = StopAfter(current_step_index)
                /\ dispatched' = dispatched \o
                        StepsBetween(current_step_index, current_step_index') ]_vars

\* C13 witness: Type("A\n\nB") fully revealed and the next step dispatched.
C13_Witness ==
    /\ Len(script) = 2
    /\ script[1] = Type(<<"A", NL, NL, "B">>)
    /\ Len(segment_store) >= 1
    /\ segment_store[1].visible_length = 4
    /\ current_step_index = 2
    /\ lifecycle = "mounted"

\* C14 (as claimed): the reveal tick at which the visible_length of a typed
\* segment of n >= 1 characters reaches n cancels the reveal timer and
\* dispatches the next step; for [Type("AB"), WaitForInput(key="enter")], once
\* the buffer text is "AB" the interpreter is suspended awaiting "enter".
C14_AdvanceOnLastRevealTick ==
    /\ [][ \A i \in 1..Len(timers) :
            ( /\ TypeTick(i)
              /\ segment_store[timers[i].seg].visible_length
                    < Len(segment_store[timers[i].seg].content)
              /\ segment_store'[timers[i].seg].visible_length
                    = Len(segment_store[timers[i].seg].content) )
            => /\ timers[i].seg \notin TypedSegments'
               /\ current_step_index' = StopAfter(current_step_index)
               /\ current_step_index < Len(script) =>
                    current_step_index' > current_step_index ]_vars
    /\ []( ( /\ script = << Type(<<"A", "B">>), WaitForInput("enter") >>
             /\ BufferText(segments) = <<"A", "B">> )
           => (waiting_for_input /\ expected_key = "enter") )

\* C15: with the cursor at the end of the script, _execute_next_step changes
\* nothing, however often it is called; a Wait timer that fires there leaves
\* the cursor, the suspension flags and the buffer as they are and arms no
\* timer.
C15_AdvanceAtEndIsNoOp ==
    /\ [](current_step_index >= Len(script) =>
            /\ execute_next_step(State) = State
            /\ execute_next_step(execute_next_step(State)) = State)
    /\ [][ \A i \in 1..Len(timers) :
            (current_step_index >= Len(script) /\ WaitTimerFires(i)) =>
                /\ UNCHANGED << current_step_index, waiting_for_input,
                                waiting_for_command, waiting_for_command_completion,
                                expected_key, segments, segment_store, dispatched >>
                /\ timers' = RemoveAt(timers, i) ]_vars

\* C15 witness: the Wait timer of a last Wait step has fired.
C15_Witness ==
    /\ lifecycle = "mounted"
    /\ current_step_index = Len(script)
    /\ script[Len(script)].kind = "Wait"
    /\ PendingTimers({"wait"}) = {}

\* C16 (as claimed): the display post-processing is idempotent for every
\* string: cleaning, fixing the markup or stripping the markers a second time
\* changes nothing.
C16_PostProcessingIdempotent ==
    /\ clean(clean(text)) = clean(text)
    /\ fix_incomplete_markup(fix_incomplete_markup(text)) = fix_incomplete_markup(text)
    /\ strip_yaml_markers(strip_yaml_markers(text)) = strip_yaml_markers(text)

\* The timers whose callback resumes the script.
ResumptionTimers == PendingTimers({"typing", "resume", "wait"})

C18_StaleChoiceIgnored ==
    [][ (OnActionSelected /\ ~waiting_for_command) =>
            UNCHANGED << current_step_index, waiting_for_input, expected_key,
                         waiting_for_command, waiting_for_command_completion,
                         segments, segment_store, timers, terminal, menus,
                         navigation_hint, workers, run_calls, dispatched >> ]_vars

\* C18 witness: a choice (Enter pressed twice on the menu) has been ignored
\* while the command chosen first was running.
C18_Witness ==
    /\ last_note = "choice_ignored"
    /\ waiting_for_command_completion
    /\ workers # <<>>

\* C19: every text segment has 0 <= visible_length <= len(content), and
\* is_fully_visible holds of it exactly when visible_length = len(content).
C19_VisibleLengthInRange ==
    \A id \in 1..Len(segment_store) :
        segment_store[id].type = "text" =>
            /\ 0 <= segment_store[id].visible_length
            /\ segment_store[id].visible_length <= Len(segment_store[id].content)
            /\ is_fully_visible(segment_store[id])
                    <=> segment_store[id].visible_length = Len(segment_store[id].content)

\* C19 witness: a typed segment in the middle of its reveal, after a fully
\* visible segment.
C19_Witness ==
    /\ Len(segment_store) = 2
    /\ segment_store[1].visible_length = Len(segment_store[1].content)
    /\ is_fully_visible(segment_store[1])
    /\ segment_store[2].visible_length > 0
    /\ ~is_fully_visible(segment_store[2])

\* The gradient segments of the buffer.
GradientsInBuffer ==
    {id \in {segments[j] : j \in 1..Len(segments)} :
        segment_store[id].type = "text" /\ segment_store[id].is_gradient}

\* C20: a tick of the animation clock advances the gradient_offset of the
\* gradient segments of the buffer by one, cyclically, and changes nothing
\* else: not the cursor, the suspension flags, the buffer's segments and their
\* order, any visible_length, the timers or any other segment; it renders
\* exactly when the buffer has a gradient segment.
C20_AnimateFrameEffect ==
    [][ AnimateFrame =>
            /\ UNCHANGED << lifecycle, current_step_index, waiting_for_input,
                            expected_key, waiting_for_command,
                            waiting_for_command_completion, segments, timers,
                            terminal, menus, navigation_hint, workers, dispatched >>
            /\ Len(segment_store') = Len(segment_store)
            /\ \A id \in 1..Len(segment_store) :
                    segment_store'[id] =
                        IF id \in GradientsInBuffer
                        THEN [segment_store[id] EXCEPT
                                !.gradient_offset = (@ + 1) % PaletteLen]
                        ELSE segment_store[id]
            /\ (last_note' = "frame_rendered") <=> (GradientsInBuffer # {}) ]_vars

\* C20 witness: the gradient of [Gradient, Type("AB")] has been animated and
\* rendered in the middle of the reveal.
C20_Witness ==
    /\ Len(segment_store) = 2
    /\ segment_store[1].is_gradient
    /\ segment_store[1].gradient_offset = 3
    /\ segment_store[2].visible_length = 1
    /\ PendingTimers({"typing"}) # {}
    /\ last_note = "frame_rendered"

\* C21 (as claimed): a reveal tick takes the narrative pause exactly when the
\* character it reveals is a line break not preceded by a line break, at any
\* position of the content, the first included: then the reveal interval is
\* stopped and one resumption is pending; otherwise the interval stays armed
\* and no resumption is pending.
C21_PauseAtEveryFirstLineBreak ==
    [][\A id \in 1..Len(segment_store) :
        segment_store'[id].visible_length = segment_store[id].visible_length + 1 =>
            LET content == segment_store[id].content
                n == segment_store'[id].visible_length
                first_line_break ==
                    /\ content[n] = NL
                    /\ (n > 1 => content[n - 1] # NL)
            IN  IF first_line_break
                THEN /\ PendingTimers({"typing"})' = {}
                     /\ Cardinality(PendingTimers({"resume"})') = 1
                ELSE /\ PendingTimers({"resume"})' = {}
                     /\ Cardinality(PendingTimers({"typing"})') = 1]_vars

\* The reveal cursor of a segment is between the two markers: the start
\* marker is behind it, the end marker is ahead of it.
BetweenMarkers(seg) ==
    /\ Find(seg.content, YAML_BLOCK_START) # 0 - 1
    /\ Find(seg.content, YAML_BLOCK_START) + Len(YAML_BLOCK_START) <= seg.visible_length
    /\ seg.visible_length < Find(seg.content, YAML_BLOCK_END)

\* C22 (as claimed): an armed reveal interval of a Type step runs at the YAML
\* rate while the cursor is between the markers of its content, and at the
\* step's own speed before and after.
C22_YamlRegionTypedFaster ==
    \A i \in PendingTimers({"typing"}) :
        timers[i].speed =
            IF BetweenMarkers(segment_store[timers[i].seg])
            THEN YAML_TYPING_SPEED
            ELSE script[current_step_index].speed

\* The text the widget shows: the text runs of render_all, one after another.
RECURSIVE TextOf(_)
TextOf(renderables) ==
    IF renderables = <<>> THEN <<>>
    ELSE (IF Head(renderables).type = "text" THEN Head(renderables).content ELSE <<>>)
         \o TextOf(Tail(renderables))

DisplayedText == TextOf(render_all(State))

\* A marker, or the beginning of one, is on display: the text holds a whole
\* marker, or ends with a proper prefix of one.
ShowsMarker(str) ==
    \E marker \in {YAML_BLOCK_START, YAML_BLOCK_END} :
        \/ Find(str, marker) # 0 - 1
        \/ \E k \in 1..(Len(marker) - 1) : EndsWith(str, SubSeq(marker, 1, k))

\* C23 (as claimed): a reveal tick shows one more character than was shown
\* before it, and what is shown after it holds no marker and no beginning of
\* a marker.
C23_MarkersNeverShown ==
    [][\A id \in 1..Len(segment_store) :
        segment_store'[id].visible_length = segment_store[id].visible_length + 1 =>
            /\ ~ShowsMarker(DisplayedText')
            /\ Len(DisplayedText') = Len(DisplayedText) + 1]_vars

\* C25 (as claimed): a fully visible segment that is not a gradient renders
\* to its content without the markers, whatever the content, an unclosed "["
\* at its end included.
C25_FullyVisibleNotTruncated ==
    strip_yaml_markers(render(TextSegment(text, Len(text), FALSE)))
        = strip_yaml_markers(text)

\* The segment at position p of the buffer.
SegmentAt(p) == segment_store[segments[p]]

\* The positions of the buffer where a maximal run of TextSegments starts, and
\* the position where the run that starts at a ends.
RunStarts ==
    {a \in 1..Len(segments) :
        SegmentAt(a).type = "text" /\ (a > 1 => SegmentAt(a - 1).type = "code")}

RunEnd(a) ==
    CHOOSE b \in a..Len(segments) :
        /\ \A p \in a..b : SegmentAt(p).type = "text"
        /\ (b < Len(segments) => SegmentAt(b + 1).type = "code")

\* What the segments of the run that starts at a render to, in buffer order.
RunText(a) == Concat([k \in 1..(RunEnd(a) - a + 1) |-> render(SegmentAt(a + k - 1))])

\* The positions that give a renderable: every CodeSegment, and the start of
\* every run that renders to some text.
RenderedPositions ==
    {p \in 1..Len(segments) : SegmentAt(p).type = "code"}
        \cup {a \in RunStarts : RunText(a) # <<>>}

\* C26: _render_all gives one renderable for each CodeSegment and one for each
\* maximal run of adjacent TextSegments (none for a run that renders to no
\* text), in buffer order: a CodeSegment's block has its content and language,
\* a run's text is what its segments render to, one after the other, without
\* the markers.
C26_RenderablesFollowBuffer ==
    /\ Len(render_all(State)) = Cardinality(RenderedPositions)
    /\ \A j \in 1..Cardinality(RenderedPositions) :
        LET p == CHOOSE q \in RenderedPositions :
                    Cardinality({r \in RenderedPositions : r < q}) = j - 1
        IN  render_all(State)[j] =
                IF SegmentAt(p).type = "code"
                THEN Renderable("code", SegmentAt(p).content, SegmentAt(p).language)
                ELSE Renderable("text", strip_yaml_markers(RunText(p)), "")

\* A text run of one partly revealed segment after a code block.
C26_Witness ==
    /\ Len(segments) = 2
    /\ render_all(State) =
        << Renderable("code", <<"y">>, "yaml"), Renderable("text", <<"A">>, "") >>

IsPrefix(a, b) == Len(a) <= Len(b) /\ SubSeq(b, 1, Len(a)) = a

\* The step just taken dispatched a Display step with clear = True.
ClearDispatched ==
    \E k \in (Len(dispatched) + 1)..Len(dispatched') :
        script[dispatched'[k]].kind = "Display" /\ script[dispatched'[k]].clear

\* C27: in every step the segments keep their type and content; in a step
\* that dispatches no Display with clear = True the buffer before is a prefix
\* of the buffer after (nothing is removed or reordered); a step that
\* dispatches one leaves none of the segments the buffer held before.
C27_BufferAppendOnly ==
    [][/\ \A id \in 1..Len(segment_store) :
            /\ id <= Len(segment_store')
            /\ segment_store'[id].type = segment_store[id].type
            /\ segment_store'[id].content = segment_store[id].content
       /\ IF ClearDispatched
          THEN \A j \in 1..Len(segments') : segments'[j] > Len(segment_store)
          ELSE IsPrefix(segments, segments')]_vars

\* A Display with clear = True has removed a typed segment.
C27_Witness ==
    /\ segments = <<2>>
    /\ Len(segment_store) = 2
    /\ segment_store[1].content = <<"A", "B">>
    /\ segment_store[2].content = <<"c">>

\* The steps dispatched by the step just taken.
NewlyDispatched == SubSeq(dispatched', Len(dispatched) + 1, Len(dispatched'))

\* The step just taken dispatched the Display step script[k] and after it no
\* step that touches the buffer: none, or the Wait or WaitForInput step it
\* auto-advanced to.
DisplayDispatched(k) ==
    /\ NewlyDispatched # <<>>
    /\ NewlyDispatched[1] = k
    /\ script[k].kind = "Display"
    /\ \/ Len(NewlyDispatched) = 1
       \/ /\ Len(NewlyDispatched) = 2
          /\ script[NewlyDispatched[2]].kind \in {"Wait", "WaitForInput"}

\* The buffer a Display step starts from: empty if clear, the buffer before
\* the step otherwise.
DisplayBase(k) == IF script[k].clear THEN <<>> ELSE segments

\* C28 (as claimed): after a Display step the buffer is the empty buffer (if
\* clear) or the buffer before the step, followed by one fully visible
\* TextSegment with the step's content, whatever the buffer held before; and
\* the script has auto-advanced.
C28_DisplayAppendsOneSegment ==
    [][\A k \in 1..Len(script) : DisplayDispatched(k) =>
        /\ Len(segment_store') = Len(segment_store) + 1
        /\ segments' = Append(DisplayBase(k), Len(segment_store'))
        /\ segment_store'[Len(segment_store')]
                = TextSegment(script[k].content, Len(script[k].content), FALSE)
        /\ current_step_index' = StopAfter(k)]_vars

\* C28 (amended): after a Display step the buffer is the empty buffer (if
\* clear) or the buffer before the step, followed, when clear is false and
\* the last segment of the buffer before the step is a TextSegment, by one
\* fully visible spacing TextSegment of two line breaks, and then by one fully
\* visible TextSegment with the step's content; and the script has
\* auto-advanced.
C28_DisplayAppendsAfterSpacing ==
    [][\A k \in 1..Len(script) : DisplayDispatched(k) =>
        LET n == Len(segment_store)
            spacing ==
                /\ ~script[k].clear
                /\ segments # <<>>
                /\ segment_store[segments[Len(segments)]].type = "text"
        IN  /\ Len(segment_store') = (IF spacing THEN n + 2 ELSE n + 1)
            /\ segments' = DisplayBase(k) \o (IF spacing THEN <<n + 1, n + 2>> ELSE <<n + 1>>)
            /\ spacing => segment_store'[n + 1] = TextSegment(<<NL, NL>>, 2, FALSE)
            /\ segment_store'[Len(segment_store')]
                    = TextSegment(script[k].content, Len(script[k].content), FALSE)
            /\ current_step_index' = StopAfter(k)]_vars

\* A Display step has appended its content, after a spacing segment, to a
\* buffer that ended with a typed segment.
C28_Witness ==
    /\ dispatched = <<1, 2>>
    /\ script[1].kind = "Type"
    /\ script[2].kind = "Display"
    /\ segments = <<1, 2, 3>>
    /\ segment_store[2].content = <<NL, NL>>
    /\ segment_store[3].content = script[2].content

\* The step just taken dispatched steps, the last of them a WaitForInput step.
WaitForInputDispatched ==
    /\ NewlyDispatched # <<>>
    /\ script[NewlyDispatched[Len(NewlyDispatched)]].kind = "WaitForInput"

\* C29: whenever the hint timer is armed, a key is awaited and it is "down";
\* a WaitForInput step arms one hint timer if its key is "down" and otherwise
\* arms none and shows the prompt; the awaited key stops the hint timer and
\* clears the hint before the script advances, so that after it the hint is
\* empty and no hint timer is armed unless the script has advanced to another
\* WaitForInput step (or, for the hint, to a Terminal step, which writes its
\* own).
C29_HintOnlyWhileAwaitingDown ==
    /\ [](PendingTimers({"hint"}) # {} => waiting_for_input /\ expected_key = "down")
    /\ [][/\ WaitForInputDispatched =>
                IF script[current_step_index'].key = "down"
                THEN Cardinality(PendingTimers({"hint"})') = 1
                ELSE PendingTimers({"hint"})' = {} /\ navigation_hint' = "prompt"
          /\ (waiting_for_input /\ OnKey(expected_key) /\ ~WaitForInputDispatched) =>
                /\ PendingTimers({"hint"})' = {}
                /\ navigation_hint' = "" \/ waiting_for_command']_vars

\* The "down" key was awaited with the hint pulsing, was pressed, and the
\* script has advanced to a Wait step with the hint stopped and cleared.
C29_Witness ==
    /\ lifecycle = "mounted"
    /\ dispatched = <<1, 2>>
    /\ script[1] = WaitForInput("down")
    /\ script[2].kind = "Wait"
    /\ PendingTimers({"hint"}) = {}
    /\ navigation_hint = ""

\* cycle_gradient_offset applied n times.
RECURSIVE CycleTimes(_, _)
CycleTimes(offset, n) ==
    IF n = 0 THEN offset ELSE CycleTimes(cycle_gradient_offset(offset), n - 1)

\* C30: the gradient_offset of every segment is one of 0..9 and comes back to
\* itself after ten applications of cycle_gradient_offset; a tick of the
\* animation clock moves every gradient segment of the buffer to the next
\* offset modulo 10; and in no step does a segment that is not a gradient
\* change its offset.
C30_OffsetCyclesModuloPalette ==
    /\ [](\A id \in 1..Len(segment_store) :
            /\ segment_store[id].gradient_offset \in 0..9
            /\ CycleTimes(segment_store[id].gradient_offset, 10)
                    = segment_store[id].gradient_offset)
    /\ [][/\ AnimateFrame =>
                \A id \in GradientsInBuffer :
                    segment_store'[id].gradient_offset
                        = (segment_store[id].gradient_offset + 1) % 10
          /\ \A id \in 1..Len(segment_store) :
                ~segment_store[id].is_gradient =>
                    segment_store'[id].gradient_offset = segment_store[id].gradient_offset
         ]_vars

\* The animation clock has just brought a gradient segment from the last
\* offset back to the first.
C30_Witness ==
    /\ last_note = "frame_rendered"
    /\ \E id \in GradientsInBuffer : segment_store[id].gradient_offset = 0


\* The armed typing timers of a hand-written scene.
TypingTimers(w) == {i \in 1..Len(w.timers) : w.timers[i].kind = "typing"}

\* The character index is strictly between the scene's two marker indices.
BetweenMarkerIndices(w) ==
    w.yaml_start_index < w.char_index /\ w.char_index < w.yaml_end_index

\* Every armed typing timer has the YAML rate if the character index is
\* strictly between the marker indices, and the normal rate if it is not.
RateFollowsIndex(w) ==
    \A i \in TypingTimers(w) :
        w.timers[i].speed =
            IF BetweenMarkerIndices(w) THEN YAML_TYPING_SPEED ELSE TYPING_SPEED

\* A step is a tick of the typing timer.
IsTypingTick == \E i \in 1..Len(widget.timers) : TypeNextChar(i)

\* C24 (as stated): in DataConfigScene and TransformScene, after every tick
\* the armed typing timer has the YAML rate if and only if the character
\* index is strictly between the start-marker index and the end-marker
\* index, each tick advances the character index by exactly one, and at most
\* one typing timer is armed at any time.
C24_EveryTickAdvancesByOne ==
    [][/\ Cardinality(TypingTimers(widget')) <= 1
       /\ IsTypingTick =>
            /\ RateFollowsIndex(widget')
            /\ widget'.char_index = widget.char_index + 1]_vars

\* C24 (amended): the typing timer's rate follows the character index as
\* stated and at most one typing timer is armed at any time; a tick advances
\* the character index by exactly one, except the tick that finds the first
\* part or the whole text typed, which leaves the index where it is and
\* leaves no typing timer armed; no other step moves the index.
C24_TickAdvancesOrEndsPart ==
    [][/\ Cardinality(TypingTimers(widget')) <= 1
       /\ RateFollowsIndex(widget')
       /\ IF IsTypingTick
          THEN \/ widget'.char_index = widget.char_index + 1
               \/ /\ widget'.char_index = widget.char_index
                  /\ widget.char_index \in {Len(widget.first_text), Len(widget.full_text)}
                  /\ TypingTimers(widget') = {}
          ELSE widget'.char_index = widget.char_index]_vars

\* The tick that types the last character before the end marker has put the
\* timer back to the normal rate.
C24_Witness ==
    /\ widget.name \in {"DataConfigScene", "TransformScene"}
    /\ widget.yaml_start_index >= 0
    /\ widget.char_index = widget.yaml_end_index
    /\ ~widget.in_yaml_block
    /\ \E i \in TypingTimers(widget) : widget.timers[i].speed = TYPING_SPEED


\* C31: an ActionMenu built with no options presents exactly "Run" and
\* "Skip" with "Run" selected first; the selected index of every mounted menu
\* stays within 0..len(options)-1, up and down move it by one and wrap around
\* at both ends, a key other than up, down and enter changes nothing, and
\* enter emits ActionSelected with the option at the current index and leaves
\* the index alone.
C31_MenuSelectionWraps ==
    [][/\ MenuOptions = <<"Run", "Skip">>
       /\ \A m \in 1..Len(menus') : menus'[m] \in 0..(Len(MenuOptions) - 1)
       /\ Len(menus') > Len(menus) => menus'[Len(menus')] = 0
       /\ \A m \in 1..Len(menus) :
            /\ MenuKey(m, "up") =>
                /\ menus'[m] = IF menus[m] = 0 THEN Len(MenuOptions) - 1 ELSE menus[m] - 1
                /\ choices' = choices
            /\ MenuKey(m, "down") =>
                /\ menus'[m] = IF menus[m] = Len(MenuOptions) - 1 THEN 0 ELSE menus[m] + 1
                /\ choices' = choices
            /\ MenuKey(m, "x") => menus' = menus /\ choices' = choices
            /\ MenuKey(m, "enter") =>
                /\ menus' = menus
                /\ Len(choices') = Len(choices) + 1
                /\ SubSeq(choices', 1, Len(choices)) = choices
                /\ choices'[Len(choices')].action = MenuOptions[menus[m] + 1]]_vars

\* "Skip" has been selected with a direction key and confirmed with enter.
C31_Witness ==
    /\ \E m \in 1..Len(menus) : menus[m] = 1
    /\ Len(choices) > 0
    /\ choices[Len(choices)].action = "Skip"


\* C34: a menu-choice event is applied only to the Terminal step whose menu
\* emitted it: an ActionSelected message whose sender is the menu of an earlier
\* Terminal step does not resolve, run or skip the step the scene is waiting
\* on, and does not remove that step's menu.
C34_ChoiceOnlyForItsOwnStep ==
    [][(OnActionSelected /\ Head(choices).sender # current_step_index) =>
            UNCHANGED << current_step_index, waiting_for_command,
                         waiting_for_command_completion, menus, run_calls,
                         dispatched >>]_vars


\* C35: when the scene has been torn down while a command is in flight, the
\* completion of the command dispatches no further step: the cursor, the
\* segment buffer and the timers of the torn-down scene stay as on_unmount
\* left them.
C35_NoDispatchAfterUnmount ==
    [][(lifecycle = "unmounted" /\ Len(workers') < Len(workers)) =>
            UNCHANGED << current_step_index, segments, segment_store, timers,
                         dispatched >>]_vars


\* C36: the cursor stays within 0..len(script) and never decreases, and the
\* steps are dispatched in script order, each once: the steps dispatched so
\* far are exactly the steps 1..cursor, so the cursor has moved by one for
\* each dispatched step.
C36_CursorCountsDispatchedSteps ==
    /\ [](/\ current_step_index \in 0..Len(script)
          /\ Len(dispatched) = current_step_index
          /\ \A n \in 1..Len(dispatched) : dispatched[n] = n)
    /\ [][/\ current_step_index' >= current_step_index
          /\ SubSeq(dispatched', 1, Len(dispatched)) = dispatched]_vars

\* C36 witness: a Wait step and the step after it have been dispatched, and
\* the cursor is at the end of the script.
C36_Witness ==
    /\ Len(script) = 2
    /\ script[1].kind = "Wait"
    /\ current_step_index = Len(script)
    /\ Len(dispatched) = 2


\* The timers that drive a reveal: typing intervals and the resumptions of
\* narrative pauses.
RevealDrivers == PendingTimers({"typing", "resume"})

\* C37: at most one reveal driver exists: the armed typing intervals and the
\* pending narrative-pause resumptions are together at most one, there is
\* none unless the cursor is on a Type step, and the one there is drives the
\* segment of that step, the last one created.
C37_AtMostOneRevealDriver ==
    /\ Cardinality(RevealDrivers) <= 1
    /\ (current_step_index = 0 \/ script[current_step_index].kind # "Type")
            => RevealDrivers = {}
    /\ \A i \in RevealDrivers : timers[i].seg = Len(segment_store)

\* C37 witness: the second of two Type steps is in its narrative pause.
C37_Witness ==
    /\ Len(script) = 2
    /\ script[1].kind = "Type"
    /\ script[2].kind = "Type"
    /\ current_step_index = 2
    /\ PendingTimers({"resume"}) # {}
    /\ PendingTimers({"typing"}) = {}


\* C32: in StimulusRunScene only one command is in flight at a time: while a
\* command the user chose to run has not completed, no other command is in
\* flight and the terminal's Input is not enabled again with the text of the
\* next command.
C32_OneCommandInFlight ==
    /\ Len(widget.running) <= 1
    /\ \A i \in 1..Len(widget.running) :
            /\ widget.terminal.disabled
            /\ widget.terminal.value = widget.running[i]


\* C33: after the teardown of WelcomeScene no timer of the scene is armed,
\* so no callback changes the scene any more.
C33_NoTimerLeftAfterUnmount ==
    widget.lifecycle = "unmounted" => widget.timers = <<>>


\* C38: CaseStudyScene gates its reveal on user events: the character index
\* does not pass the end of part 1 before the down key has been accepted, nor
\* the end of part 2 before a menu choice has been received, nor the end of
\* the text; each gate is opened once; and a down key or a menu choice that
\* arrives when its gate is not pending arms no typing timer.
C38_RevealGatedOnUserEvents ==
    [][/\ (~widget'.part1_done \/ widget'.waiting_for_down)
            => widget'.char_index <= widget'.ends[1]
       /\ (~widget'.part2_done \/ widget'.waiting_for_action)
            => widget'.char_index <= widget'.ends[2]
       /\ widget'.char_index <= Len(widget'.full_text)
       /\ (~widget.waiting_for_down /\ widget'.waiting_for_down) => ~widget.part1_done
       /\ (~widget.waiting_for_action /\ widget'.waiting_for_action) => ~widget.part2_done
       /\ (CaseNextPart /\ ~widget.waiting_for_down)
            => widget'.timers = widget.timers
       /\ (CaseActionSelected /\ ~widget.waiting_for_action)
            => widget'.timers = widget.timers]_vars


\* The scene instances mounted in the running app: the children of "#main"
\* that have not been asked to leave.
MountedScenes(app) ==
    { i \in 1..Len(app.main) : ~app.main[i].pruning }

====
